---- MODULE Spec2Model ----
(***************************************************************************)
(* A model of the agebrock-mimo collection facade (find, findOne, exists,  *)
(* remove, update) and of the bundled mingo engine it calls: the value     *)
(* model, path resolution, the query compiler, the lazy iterator behind    *)
(* the cursor, and the update engine.                                      *)
(*                                                                         *)
(* Values are tagged records.  A mapping is a sequence of entries          *)
(* [k, v] in insertion order (the order Object.entries/Object.keys         *)
(* enumerate); an array is a sequence of values.  A selector is the        *)
(* sequence of its dot-separated segments, so "items.$[x].qty" is          *)
(* <<"items", "$[x]", "qty">>.                                             *)
(***************************************************************************)
EXTENDS Integers, Sequences, FiniteSets, TLC

\* collection is the facade's array; pre, call and result record the last
\* call (the collection before it, its arguments, what it returned); lazy is
\* an Iterator and cursor a Cursor a caller holds, hist what they were staged
\* with and have returned so far.
VARIABLES collection, pre, call, result, ncalls, GLOBAL_CONTEXT, lazy, cursor, hist,
          copts

vars == <<collection, pre, call, result, ncalls, GLOBAL_CONTEXT, lazy, cursor, hist,
          copts>>

\* The facade and the utilities hold no iterator, no cursor and no
\* evaluation context.
held == <<lazy, cursor, hist, copts>>
NotHeld == [kind |-> "none"]

\* F applied to the value of v, which is computed once.
With(v, F(_)) == CHOOSE out \in {F(x) : x \in {v}} : TRUE

(***************************************************************************)
(* Bounds                                                                  *)
(***************************************************************************)
MaxCalls == 1

(***************************************************************************)
(* Value model                                                             *)
(***************************************************************************)
Num(n) == [t |-> "number", n |-> n]
Str(s) == [t |-> "string", s |-> s]
Bool(b) == [t |-> "boolean", b |-> b]
Null == [t |-> "null"]
Undefined == [t |-> "undefined"]
NaN == [t |-> "nan"]
Arr(a) == [t |-> "array", a |-> a]
Obj(o) == [t |-> "object", o |-> o]
Entry(k, v) == [k |-> k, v |-> v]

\* getType(v): the tag of Object.prototype.toString; NaN is of type Number.
getType(v) == IF v.t = "nan" THEN "number" ELSE v.t

isNumber(v) == v.t = "number"
isString(v) == v.t = "string"
isArray(v) == v.t = "array"
isObject(v) == v.t = "object"
isNil(v) == v.t = "null" \/ v.t = "undefined"
isObjectLike(v) == v.t = "array" \/ v.t = "object"

JS_SIMPLE_TYPES == {"null", "undefined", "boolean", "number", "string", "date", "regexp"}

\* JavaScript truthiness (used by `!item`, `o[k] || ...`, `findOne(...) ? :`).
Truthy(v) ==
  CASE v.t = "undefined" -> FALSE
    [] v.t = "null" -> FALSE
    [] v.t = "nan" -> FALSE
    [] v.t = "number" -> v.n # 0
    [] v.t = "string" -> v.s # ""
    [] v.t = "boolean" -> v.b
    [] OTHER -> TRUE

\* Keys matching /^\d+$/ and the index they denote.
NumericKeys == <<"0", "1", "2", "3">>
NUMBER_RE(k) == \E i \in 1..Len(NumericKeys) : NumericKeys[i] = k
KeyIndex(k) == (CHOOSE i \in 1..Len(NumericKeys) : NumericKeys[i] = k) - 1

\* Keys of a mapping, in insertion order.
Keys(o) == [i \in 1..Len(o.o) |-> o.o[i].k]
has(o, k) == isObject(o) /\ \E i \in 1..Len(o.o) : o.o[i].k = k
KeyPos(o, k) == CHOOSE i \in 1..Len(o.o) : o.o[i].k = k

\* obj[key] read on a mapping or an array; undefined when absent.
Get(o, k) ==
  CASE isObject(o) -> IF has(o, k) THEN o.o[KeyPos(o, k)].v ELSE Undefined
    [] isArray(o) -> IF NUMBER_RE(k) /\ KeyIndex(k) < Len(o.a)
                     THEN o.a[KeyIndex(k) + 1] ELSE Undefined
    [] OTHER -> Undefined

\* obj[key] = v on a mapping (a new key is appended, an existing key keeps
\* its place) or on an array index (at most one past the end).
Put(o, k, v) ==
  CASE isObject(o) ->
         IF has(o, k)
         THEN Obj([o.o EXCEPT ![KeyPos(o, k)] = Entry(k, v)])
         ELSE Obj(Append(o.o, Entry(k, v)))
    [] isArray(o) ->
         IF KeyIndex(k) < Len(o.a)
         THEN Arr([o.a EXCEPT ![KeyIndex(k) + 1] = v])
         ELSE Arr(Append(o.a, v))
    [] OTHER -> o

\* getValue(obj, key)
getValue(o, k) == IF isObjectLike(o) THEN Get(o, k) ELSE Undefined

(***************************************************************************)
(* isEqual: same constructor; string-convertible types by their string;    *)
(* arrays and mappings by key set and the values under each key.           *)
(***************************************************************************)
RECURSIVE isEqual(_, _)
isEqual(a, b) ==
  IF a.t # b.t THEN FALSE
  ELSE CASE a.t = "number" -> a.n = b.n
         [] a.t = "string" -> a.s = b.s
         [] a.t = "boolean" -> a.b = b.b
         [] a.t = "array" ->
              /\ Len(a.a) = Len(b.a)
              /\ \A i \in 1..Len(a.a) : isEqual(a.a[i], b.a[i])
         [] a.t = "object" ->
              /\ Len(a.o) = Len(b.o)
              /\ \A i \in 1..Len(a.o) : has(b, a.o[i].k)
              /\ \A i \in 1..Len(a.o) : isEqual(a.o[i].v, Get(b, a.o[i].k))
         [] OTHER -> TRUE

(***************************************************************************)
(* compare: MongoDB comparison order                                       *)
(***************************************************************************)
SORT_ORDER_BY_TYPE(v) ==
  CASE getType(v) \in {"null", "undefined"} -> 0
    [] getType(v) = "number" -> 1
    [] getType(v) = "string" -> 2
    [] getType(v) = "object" -> 3
    [] getType(v) = "array" -> 4
    [] getType(v) = "boolean" -> 5
    [] OTHER -> 8

\* The strings of the model in the order of JavaScript's `<` on strings.
StringOrder == <<"", "s", "s1", "s2", "t">>
StrRank(s) == CHOOSE i \in 1..Len(StringOrder) : StringOrder[i] = s

\* compare$1(a, b).  Numbers and strings use `<` and `>` (every comparison
\* with NaN is false); other values of one rank are 0 when isEqual, and
\* booleans order false before true.
compare1(a, b) ==
  LET u == SORT_ORDER_BY_TYPE(a)
      v == SORT_ORDER_BY_TYPE(b)
  IN IF u # v THEN u - v
     ELSE CASE u = 1 ->
                 IF a.t = "nan" \/ b.t = "nan" THEN 0
                 ELSE IF a.n < b.n THEN -1 ELSE IF a.n > b.n THEN 1 ELSE 0
            [] u = 2 ->
                 IF a.s = b.s THEN 0
                 ELSE IF StrRank(a.s) < StrRank(b.s) THEN -1 ELSE 1
            [] u = 5 ->
                 IF a.b = b.b THEN 0 ELSE IF b.b THEN -1 ELSE 1
            [] OTHER -> 0

\* The outcomes of a comparator on the elements of s: a matrix with
\* comparator(s[i], s[j]) at [i][j].
Compared(s, comparator(_, _)) ==
  [i \in 1..Len(s) |-> [j \in 1..Len(s) |-> comparator(s[i], s[j])]]

\* Mutant of sortArray: elements that compare equal come out in reverse
\* input order.
sortArrayUnstable(s, cmp) ==
  LET rank(i) == Cardinality({j \in 1..Len(s) :
                    cmp[j][i] < 0 \/ (cmp[j][i] = 0 /\ j > i)}) + 1
  IN [p \in 1..Len(s) |-> s[CHOOSE i \in 1..Len(s) : rank(i) = p]]

\* Array.prototype.sort(comparator), cmp holding the comparator's outcomes,
\* under a comparator that is a total preorder: ascending, elements that
\* compare equal in input order.
sortArray(s, cmp) ==
  LET rank(i) == Cardinality({j \in 1..Len(s) :
                    cmp[j][i] < 0 \/ (cmp[j][i] = 0 /\ j < i)}) + 1
  IN [p \in 1..Len(s) |-> s[CHOOSE i \in 1..Len(s) : rank(i) = p]]

\* isEmpty(x)
isEmpty(x) ==
  \/ isNil(x)
  \/ isString(x) /\ x.s = ""
  \/ isArray(x) /\ Len(x.a) = 0
  \/ isObject(x) /\ Len(x.o) = 0

\* dropItem(array, i), i counted from 1
dropItem(array, i) == SubSeq(array, 1, i - 1) \o SubSeq(array, i + 1, Len(array))

\* MISSING = Symbol("missing")
MISSING == [t |-> "missing"]
isMissing(v) == v = MISSING

(***************************************************************************)
(* Path resolution                                                         *)
(***************************************************************************)
\* resolve2 of resolve(obj, selector): the value and the array depth
\* counter `depth`, which the recursion shares and increments.
RECURSIVE resolve2(_, _, _, _)
RECURSIVE resolveItems(_, _, _, _, _)
resolve2(value, path, i, depth) ==
  IF i > Len(path) THEN [v |-> value, d |-> depth]
  ELSE LET field == path[i]
           isText == ~NUMBER_RE(field)
       IN IF isText /\ isArray(value)
          THEN IF i = 1 /\ depth > 0
               THEN [v |-> value, d |-> depth]
               ELSE resolveItems(value.a, 1, SubSeq(path, i, Len(path)), depth + 1, <<>>)
          ELSE LET nv == getValue(value, field)
               IN IF nv.t = "undefined" THEN [v |-> nv, d |-> depth]
                  ELSE resolve2(nv, path, i + 1, depth)

\* value.reduce((acc, item) => ...) inside resolve2
resolveItems(items, j, subpath, depth, acc) ==
  IF j > Len(items) THEN [v |-> Arr(acc), d |-> depth]
  ELSE LET r == resolve2(items[j], subpath, 1, depth)
       IN resolveItems(items, j + 1, subpath, r.d,
                       IF r.v.t = "undefined" THEN acc ELSE Append(acc, r.v))

\* unwrap(arr, depth)
RECURSIVE unwrap(_, _)
unwrap(arr, depth) ==
  IF depth < 1 THEN arr
  ELSE IF isArray(arr) /\ Len(arr.a) = 1 THEN unwrap(arr.a[1], depth - 1)
  ELSE arr

\* resolve(obj, selector, {unwrapArray})
resolve(obj, selector, unwrapArray) ==
  IF getType(obj) \in JS_SIMPLE_TYPES THEN obj
  ELSE LET r == resolve2(obj, selector, 1, 0)
       IN IF isArray(r.v) /\ unwrapArray THEN unwrap(r.v, r.d) ELSE r.v

\* flatten(xs, depth) for depth >= 0
RECURSIVE flatten(_, _)
flatten(xs, n) ==
  IF Len(xs) = 0 THEN <<>>
  ELSE LET h == xs[1]
       IN (IF isArray(h) /\ n > 0 THEN flatten(h.a, n - 1) ELSE <<h>>)
          \o flatten(Tail(xs), n)

(***************************************************************************)
(* Query predicates and the query compiler                                 *)
(***************************************************************************)
\* Names matching OPERATOR_NAME_PATTERN /^\$[a-zA-Z0-9_]+$/ among the keys
\* of the model.
OperatorNames == {"$eq", "$ne", "$gt", "$gte", "$lt", "$lte", "$in", "$each",
                  "$set", "$inc", "$mul", "$bit", "$pop", "$foo",
                  "$and", "$or", "$nor", "$custom",
                  "$all", "$elemMatch", "$where"}
isOperator(name) == name \in OperatorNames

QUERY_OPERATORS == {"$eq", "$ne", "$gt", "$gte", "$lt", "$lte", "$all", "$elemMatch"}

ensureArray1(x) == IF isArray(x) THEN x.a ELSE <<x>>

\* $eq$2(a, b, {depth})
eq2(a, b, depth) ==
  \/ isEqual(a, b)
  \/ isNil(a) /\ isNil(b)
  \/ /\ isArray(a)
     /\ \/ \E i \in 1..Len(a.a) : isEqual(b, a.a[i])
        \/ LET f == flatten(a.a, depth)
           IN \E i \in 1..Len(f) : isEqual(b, f[i])

\* compare(a, b, f) with f one of the order tests of $lt$2 .. $gte$2
compare(a, b, op) ==
  LET xs == ensureArray1(a)
  IN \E i \in 1..Len(xs) :
       /\ getType(xs[i]) = getType(b)
       /\ LET c == compare1(xs[i], b)
          IN CASE op = "$lt" -> c < 0
               [] op = "$lte" -> c <= 0
               [] op = "$gt" -> c > 0
               [] op = "$gte" -> c >= 0

RECURSIVE Query(_)
RECURSIVE test(_, _)

\* isNonBooleanOperator(name)
isNonBooleanOperator(name) == isOperator(name) /\ name \notin {"$and", "$or", "$nor"}

\* The condition a mapping is read as by Query.compile: one entry per key,
\* the key as a selector (the keys of the model hold no dot).
Condition(b) == [i \in 1..Len(b.o) |-> [field |-> <<b.o[i].k>>, expr |-> b.o[i].v]]

\* Mutant of elemMatch2: every element has to pass the subquery.
elemMatchEvery(a, b) ==
  /\ isArray(a) /\ ~isEmpty(a)
  /\ LET fake == \A i \in 1..Len(b.o) : isNonBooleanOperator(b.o[i].k)
         criteria == IF fake THEN <<[field |-> <<"temp">>, expr |-> b]>> ELSE Condition(b)
     IN \A i \in 1..Len(a.a) :
          test(Query(criteria), IF fake THEN Obj(<<Entry("temp", a.a[i])>>) ELSE a.a[i])

\* $elemMatch$2(a, b, options): a subquery made of non-boolean operators
\* only is put under the fake field temp, and so is each element.
elemMatch2(a, b) ==
  /\ isArray(a) /\ ~isEmpty(a)
  /\ LET fake == \A i \in 1..Len(b.o) : isNonBooleanOperator(b.o[i].k)
         criteria == IF fake THEN <<[field |-> <<"temp">>, expr |-> b]>> ELSE Condition(b)
     IN \E i \in 1..Len(a.a) :
          test(Query(criteria), IF fake THEN Obj(<<Entry("temp", a.a[i])>>) ELSE a.a[i])

\* $all$1(values, queries, options); the model has no regular expressions.
all1(values, queries) ==
  /\ isArray(values) /\ isArray(queries)
  /\ Len(values.a) # 0 /\ Len(queries.a) # 0
  /\ \A j \in 1..Len(queries.a) :
       LET query == queries.a[j]
       IN IF isObject(query) /\ has(query, "$elemMatch")
          THEN elemMatch2(values, Get(query, "$elemMatch"))
          ELSE \E i \in 1..Len(values.a) : isEqual(query, values.a[i])

\* The predicate of a query operator applied to the resolved value.
predicate(op, lhs, value, depth) ==
  CASE op = "$eq" -> eq2(lhs, value, depth)
    [] op = "$ne" -> ~eq2(lhs, value, depth)
    [] op \in {"$lt", "$lte", "$gt", "$gte"} -> compare(lhs, value, op)
    [] op = "$all" -> all1(lhs, value)
    [] op = "$elemMatch" -> elemMatch2(lhs, value)

\* createQueryOperator(predicate)(selector, value, options)(obj)
queryOperator(c, obj) ==
  LET lhs == resolve(obj, c.selector, TRUE)
      depth == IF Len(c.selector) - 1 > 1 THEN Len(c.selector) - 1 ELSE 1
  IN predicate(c.op, lhs, c.value, depth)

\* normalize(expr): the operator entries of a field's expression.
normalize(expr) ==
  IF getType(expr) \in JS_SIMPLE_TYPES THEN <<Entry("$eq", expr)>>
  ELSE IF isObject(expr) /\ \E i \in 1..Len(expr.o) : isOperator(expr.o[i].k)
       THEN expr.o
       ELSE <<Entry("$eq", expr)>>

\* The logical operators Query.compile hands to processOperator by name.
LOGICAL_OPERATORS == {"$and", "$or", "$nor"}

\* $and, $or, $nor (selector, rhs, options): rhs is an array of conditions,
\* each compiled to a Query; the result is the compiled predicate or an
\* error (rhs is no array, or a branch does not compile).
logicalOperator(op, rhs) ==
  IF ~isArray(rhs) THEN [ok |-> FALSE, fn |-> <<>>]
  ELSE With([j \in 1..Len(rhs.a) |-> Query(rhs.a[j])],
            LAMBDA queries :
              IF \E j \in 1..Len(queries) : ~queries[j].ok
              THEN [ok |-> FALSE, fn |-> <<>>]
              ELSE [ok |-> TRUE, fn |-> [op |-> op, queries |-> queries]])

\* obj => queries.every(q => q.test(obj))
and(queries, obj) == \A j \in 1..Len(queries) : test(queries[j], obj)

\* Mutant of or: every branch must pass.
orEvery(queries, obj) == \A j \in 1..Len(queries) : test(queries[j], obj)

\* obj => queries.some(q => q.test(obj))
or(queries, obj) == \E j \in 1..Len(queries) : test(queries[j], obj)

\* obj => !f(obj), f the predicate of $or on the same rhs
nor(queries, obj) == ~or(queries, obj)

\* $where(_, rhs, options) with options.scriptEnabled, which initOptions
\* turns on: rhs has to be a function.
where(rhs) ==
  IF rhs.t = "function"
  THEN [ok |-> TRUE, fn |-> [op |-> "$where", f |-> rhs]]
  ELSE [ok |-> FALSE, fn |-> <<>>]

\* One turn of the loop of Query.compile before its last statement: the
\* predicates of one [field, expr] entry are pushed.  A $where entry pushes
\* nothing here.
compileEntry(field, expr, compiled) ==
  IF Len(field) = 1 /\ field[1] = "$where"
  THEN [ok |-> TRUE, compiled |-> compiled]
  ELSE IF Len(field) = 1 /\ field[1] \in LOGICAL_OPERATORS
  THEN With(logicalOperator(field[1], expr),
            LAMBDA r :
              IF ~r.ok THEN [ok |-> FALSE, compiled |-> compiled]
              ELSE [ok |-> TRUE, compiled |-> Append(compiled, r.fn)])
  ELSE IF Len(field) = 1 /\ isOperator(field[1])
  THEN [ok |-> FALSE, compiled |-> compiled]
  ELSE With(normalize(expr),
            LAMBDA ops :
              IF \E j \in 1..Len(ops) : ops[j].k \notin QUERY_OPERATORS
              THEN [ok |-> FALSE, compiled |-> compiled]
              ELSE [ok |-> TRUE,
                    compiled |-> compiled \o [j \in 1..Len(ops) |->
                       [selector |-> field, op |-> ops[j].k, value |-> ops[j].v]]])

\* Query.compile: a condition is the sequence of its [field, expr] entries,
\* field being a selector.  whereOperator is <<>> until a $where entry is
\* met and <<expr>> from then on; the last statement of the loop pushes the
\* $where predicate at the end of every turn in which whereOperator is set.
\* The result is the compiled predicate list, or an error for an
\* operator-shaped field, an unknown operator or a $where that is no
\* function.
RECURSIVE compile(_, _, _, _)
compile(condition, i, compiled, whereOperator) ==
  IF i > Len(condition) THEN [ok |-> TRUE, compiled |-> compiled]
  ELSE With(compileEntry(condition[i].field, condition[i].expr, compiled),
            LAMBDA r :
              IF ~r.ok THEN r
              ELSE With(IF condition[i].field = <<"$where">>
                        THEN <<condition[i].expr>> ELSE whereOperator,
                        LAMBDA seen :
                          IF seen = <<>>
                          THEN compile(condition, i + 1, r.compiled, seen)
                          ELSE IF ~where(seen[1]).ok
                          THEN [ok |-> FALSE, compiled |-> r.compiled]
                          ELSE compile(condition, i + 1,
                                       Append(r.compiled, where(seen[1]).fn), seen)))

\* new Query(condition)
Query(condition) == compile(condition, 1, <<>>, <<>>)

\* f.call(obj) for the functions a caller hands to $where.
callThis(f, obj) ==
  CASE f.id = "aIsOne" -> Bool(isEqual(Get(obj, "a"), Num(1)))
    [] f.id = "b" -> Get(obj, "b")
    [] f.id = "never" -> Bool(FALSE)

\* A compiled predicate applied to obj.
callCompiled(c, obj) ==
  CASE c.op = "$and" -> and(c.queries, obj)
    [] c.op = "$or" -> or(c.queries, obj)
    [] c.op = "$nor" -> nor(c.queries, obj)
    [] c.op = "$where" -> Truthy(callThis(c.f, obj))
    [] OTHER -> queryOperator(c, obj)

\* Query.test(obj): every compiled predicate passes.
test(q, obj) == \A i \in 1..Len(q.compiled) : callCompiled(q.compiled[i], obj)

\* The loop of Query.test(obj) from position i on: the value it returns and
\* the positions of the compiled predicates it has called, in order.
RECURSIVE testLoop(_, _, _, _)
testLoop(q, obj, i, called) ==
  IF i > Len(q.compiled) THEN [val |-> TRUE, called |-> called]
  ELSE IF ~callCompiled(q.compiled[i], obj)
  THEN [val |-> FALSE, called |-> Append(called, i)]
  ELSE testLoop(q, obj, i + 1, Append(called, i))

(***************************************************************************)
(* Operator registry                                                       *)
(***************************************************************************)
\* A function value, identified by id; typeof v === "function".
Fn(id) == [t |-> "function", id |-> id]
isFunction(v) == v.t = "function"

OperatorType == {"accumulator", "expression", "pipeline", "projection", "query", "window"}

\* The operator names the registry of the model has a slot for.
RegistryNames == {"$eq", "$custom"}

\* new Context({}).operators: a map of names to functions for each class.
EmptyOperators == [type \in OperatorType |-> [name \in RegistryNames |-> Undefined]]

\* Context.getOperator(type, name) on the operators map ops
contextGetOperator(ops, type, name) ==
  IF type \in DOMAIN ops /\ name \in DOMAIN ops[type] /\ Truthy(ops[type][name])
  THEN ops[type][name]
  ELSE Null

\* Context.addOperators(type, ops): a name already bound keeps its function.
RECURSIVE addOperators(_, _, _, _)
addOperators(ops, type, operators, i) ==
  IF i > Len(operators) THEN ops
  ELSE addOperators(IF ~Truthy(contextGetOperator(ops, type, operators[i].k))
                    THEN [ops EXCEPT ![type][operators[i].k] = operators[i].v]
                    ELSE ops,
                    type, operators, i + 1)

\* The global context after the module has loaded: the built-in $eq of the
\* query and expression classes.
LoadedOperators ==
  [EmptyOperators EXCEPT !["query"]["$eq"] = Fn("$eq"),
                         !["expression"]["$eq"] = Fn("$eq$1")]

\* Options with a context of its own and the fallback flag.
ContextOptions(ops, useGlobalContext) ==
  [t |-> "object", context |-> [t |-> "context", operators |-> ops],
   useGlobalContext |-> useGlobalContext]

\* getOperator(type, operator, options) with global the operators of
\* GLOBAL_CONTEXT; options is null or has a context and the fallback flag.
getOperator(global, type, operator, options) ==
  LET ctx == IF isNil(options) THEN Undefined ELSE options.context
      fallback == IF isNil(options) THEN Undefined ELSE options.useGlobalContext
      fn == IF Truthy(ctx) THEN contextGetOperator(ctx.operators, type, operator) ELSE Null
  IN IF ~Truthy(fn) /\ Truthy(fallback)
     THEN contextGetOperator(global, type, operator)
     ELSE fn

\* useOperators(type, operators) on the operators of GLOBAL_CONTEXT:
\* operators is the sequence of the map's [name, fn] entries.  Every entry
\* is asserted before any is added.
useOperators(global, type, operators) ==
  IF \E i \in 1..Len(operators) :
       \/ ~(isFunction(operators[i].v) /\ isOperator(operators[i].k))
       \/ LET currentFn == getOperator(global, type, operators[i].k, Null)
          IN ~(~Truthy(currentFn) \/ operators[i].v = currentFn)
  THEN [ops |-> global, err |-> TRUE]
  ELSE IF type \in OperatorType
  THEN [ops |-> addOperators(global, type, operators, 1), err |-> FALSE]
  ELSE [ops |-> global, err |-> FALSE]

(***************************************************************************)
(* JavaScript arithmetic used by the update operators                      *)
(***************************************************************************)
\* String(v) as `+` and `*` convert an array or a mapping operand.
RECURSIVE jsToString(_)
RECURSIVE jsJoin(_, _)
jsToString(v) ==
  CASE v.t = "number" -> ToString(v.n)
    [] v.t = "nan" -> "NaN"
    [] v.t = "string" -> v.s
    [] v.t = "boolean" -> IF v.b THEN "true" ELSE "false"
    [] v.t = "null" -> "null"
    [] v.t = "undefined" -> "undefined"
    [] v.t = "object" -> "[object Object]"
    [] v.t = "array" -> jsJoin(v.a, 1)
jsJoin(a, i) ==
  IF i > Len(a) THEN ""
  ELSE (IF isNil(a[i]) THEN "" ELSE jsToString(a[i]))
       \o (IF i < Len(a) THEN "," ELSE "") \o jsJoin(a, i + 1)

\* Number(s) of a string: the empty string is 0, a digit string its value,
\* anything else NaN.
strToNumber(s) ==
  IF s = "" THEN Num(0)
  ELSE IF NUMBER_RE(s) THEN Num(KeyIndex(s)) ELSE NaN

\* Number(v)
jsToNumber(v) ==
  CASE v.t = "number" -> v
    [] v.t = "nan" -> NaN
    [] v.t = "string" -> strToNumber(v.s)
    [] v.t = "boolean" -> IF v.b THEN Num(1) ELSE Num(0)
    [] v.t = "null" -> Num(0)
    [] v.t = "undefined" -> NaN
    [] v.t = "object" -> NaN
    [] v.t = "array" -> strToNumber(jsToString(v))

\* a + b: string concatenation when an operand is (or converts to) a string.
jsAdd(a, b) ==
  IF a.t \in {"string", "array", "object"} \/ b.t \in {"string", "array", "object"}
  THEN Str(jsToString(a) \o jsToString(b))
  ELSE LET x == jsToNumber(a)
           y == jsToNumber(b)
       IN IF x.t = "nan" \/ y.t = "nan" THEN NaN ELSE Num(x.n + y.n)

\* a * b
jsMul(a, b) ==
  LET x == jsToNumber(a)
      y == jsToNumber(b)
  IN IF x.t = "nan" \/ y.t = "nan" THEN NaN ELSE Num(x.n * y.n)

\* a !== b for the result of an operator against the previous value: NaN
\* differs from itself; a primitive is compared by value.
strictNotEqual(a, b) ==
  \/ a.t # b.t
  \/ a.t = "nan"
  \/ a.t = "number" /\ a.n # b.n
  \/ a.t = "string" /\ a.s # b.s
  \/ a.t = "boolean" /\ a.b # b.b

\* n & v, n | v, n ^ v on non-negative integers below 2^31.
RECURSIVE bitOp(_, _, _)
bitOp(op, n, v) ==
  IF n = 0 /\ v = 0 THEN 0
  ELSE LET a == n % 2
           b == v % 2
           r == CASE op = "and" -> IF a = 1 /\ b = 1 THEN 1 ELSE 0
                  [] op = "or" -> IF a = 1 \/ b = 1 THEN 1 ELSE 0
                  [] op = "xor" -> IF a # b THEN 1 ELSE 0
       IN r + 2 * bitOp(op, n \div 2, v \div 2)

(***************************************************************************)
(* Array utilities                                                         *)
(***************************************************************************)
\* sortBy(collection, keyFn) with the default comparator, keys holding
\* keyFn(obj, i) for each element: the elements whose key is nil are pushed
\* to the result as they are met; the sorted rest is pushed after them.
sortBy(coll, keys) ==
  IF Len(coll) = 0 THEN coll
  ELSE LET keyed == [i \in 1..Len(coll) |-> <<keys[i], coll[i]>>]
           nils == SelectSeq(keyed, LAMBDA p : isNil(p[1]))
           rest == SelectSeq(keyed, LAMBDA p : ~isNil(p[1]))
           sorted == sortArray(rest, Compared(rest, LAMBDA x, y : compare1(x[1], y[1])))
       IN [i \in 1..Len(nils) |-> nils[i][2]] \o [i \in 1..Len(sorted) |-> sorted[i][2]]

\* The keys of the model's mappings in the order of Array.prototype.sort()
\* on strings (by UTF-16 code unit).
KeyOrder ==
  <<"0", "1", "2", "3", "_id", "a", "b", "c", "id", "items", "k", "n", "q",
    "qty", "w", "x", "z">>
KeyRank(k) == CHOOSE i \in 1..Len(KeyOrder) : KeyOrder[i] = k

\* A reference to the array or mapping at an address of the object graph;
\* an array or mapping written in place is referenced from that place only.
Ptr(n) == [t |-> "ptr", to |-> n]
isPtr(v) == v.t = "ptr"
deref(heap, v) == IF isPtr(v) THEN heap[v.to] ELSE v

\* Array.prototype.join(sep) on strings
RECURSIVE join(_, _)
join(strs, sep) ==
  IF Len(strs) = 0 THEN ""
  ELSE IF Len(strs) = 1 THEN strs[1]
  ELSE strs[1] \o sep \o join(Tail(strs), sep)

\* STRING_CONVERTERS: toString of numbers, booleans, functions and symbols,
\* JSON.stringify of strings, "null" and "undefined".
hasConverter(v) ==
  v.t \in {"number", "nan", "boolean", "string", "null", "undefined", "function", "missing"}
convert(v) ==
  CASE v.t = "number" -> ToString(v.n)
    [] v.t = "nan" -> "NaN"
    [] v.t = "boolean" -> IF v.b THEN "true" ELSE "false"
    [] v.t = "string" -> "\"" \o v.s \o "\""
    [] v.t = "null" -> "null"
    [] v.t = "undefined" -> "undefined"
    [] v.t = "function" -> "function " \o v.id
    [] v.t = "missing" -> "Symbol(missing)"

\* Mutant of CycleFound: nothing is thrown.
CycleIgnored == [err |-> FALSE, s |-> ""]

\* throw CYCLE_FOUND_ERROR
CycleFound == [err |-> TRUE, s |-> ""]

\* Mutant of sortKeys: the keys stay in insertion order.
sortKeysNot(objKeys) == objKeys

\* objKeys.sort()
sortKeys(objKeys) ==
  sortArray(objKeys, Compared(objKeys, LAMBDA x, y : KeyRank(x) - KeyRank(y)))

\* The function str of stringify(value): the text of v with the arrays and
\* mappings on the path from the root in the cycle set.  The keys of a
\* mapping are sorted.  (No value of the model has a toJSON member or a
\* user-defined constructor.)
RECURSIVE str(_, _, _)
str(heap, v, cycle) ==
  LET node == deref(heap, v)
      inner == IF isPtr(v) THEN cycle \cup {v.to} ELSE cycle
  IN IF hasConverter(node) THEN [err |-> FALSE, s |-> convert(node)]
     ELSE IF isPtr(v) /\ v.to \in cycle THEN CycleFound
     ELSE IF isArray(node)
     THEN With([i \in 1..Len(node.a) |-> str(heap, node.a[i], inner)],
               LAMBDA parts :
                 IF \E i \in 1..Len(parts) : parts[i].err THEN CycleFound
                 ELSE [err |-> FALSE,
                       s |-> "[" \o join([i \in 1..Len(parts) |-> parts[i].s], ",") \o "]"])
     ELSE With(sortKeys(Keys(node)),
               LAMBDA objKeys :
                 With([i \in 1..Len(objKeys) |-> str(heap, Get(node, objKeys[i]), inner)],
                      LAMBDA parts :
                        IF \E i \in 1..Len(parts) : parts[i].err THEN CycleFound
                        ELSE [err |-> FALSE,
                              s |-> "{" \o join([i \in 1..Len(parts) |->
                                                   objKeys[i] \o ":" \o parts[i].s], ",")
                                        \o "}"]))

\* stringify(value) for a value written in place
stringify(v) == str(<<>>, v, {})

\* The inner function clone(val) of cloneDeep(obj): a copy of v, with the arrays and
\* mappings on the path from the root in the cycle set.  Every reference
\* to an array or mapping gets a copy of its own.
RECURSIVE cloneVal(_, _, _)
cloneVal(heap, v, cycle) ==
  LET node == deref(heap, v)
      inner == IF isPtr(v) THEN cycle \cup {v.to} ELSE cycle
  IN IF isPtr(v) /\ v.to \in cycle THEN [err |-> CycleFound.err, v |-> Undefined]
     ELSE IF ~isObjectLike(node) THEN [err |-> FALSE, v |-> node]
     ELSE IF isArray(node)
     THEN With([i \in 1..Len(node.a) |-> cloneVal(heap, node.a[i], inner)],
               LAMBDA parts :
                 IF \E i \in 1..Len(parts) : parts[i].err
                 THEN [err |-> TRUE, v |-> Undefined]
                 ELSE [err |-> FALSE, v |-> Arr([i \in 1..Len(parts) |-> parts[i].v])])
     ELSE With([i \in 1..Len(node.o) |-> cloneVal(heap, node.o[i].v, inner)],
               LAMBDA parts :
                 IF \E i \in 1..Len(parts) : parts[i].err
                 THEN [err |-> TRUE, v |-> Undefined]
                 ELSE [err |-> FALSE,
                       v |-> Obj([i \in 1..Len(parts) |-> Entry(node.o[i].k, parts[i].v)])])

\* cloneDeep(obj) of the object at the root of a graph
cloneDeep(heap, obj) == cloneVal(heap, obj, {})

\* DEFAULT_HASH_FUNCTION folds the text of stringify(value) into 32 bits.
\* The fold is not computed: either texts that differ have hashes that
\* differ (the hash is the text), or, to cover the collisions of the fold,
\* all texts have the same hash.
DEFAULT_HASH_FUNCTION == "distinct"
HashFunctions == {DEFAULT_HASH_FUNCTION, "colliding", "tagged"}
hashFunction(hf, v) ==
  CASE hf = "distinct" -> stringify(v).s
    [] hf = "colliding" -> "c"
    [] hf = "tagged" -> "h" \o stringify(v).s

\* hashCode(value, hashFunction)
hashCode(v, hf) == IF isNil(v) THEN Null ELSE Str(hashFunction(hf, v))

\* The insertion-ordered Map of buildHashIndex: entries [h, idx] with idx
\* the list of (0-based) positions.
mapHas(m, h) == \E e \in 1..Len(m) : m[e].h = h
mapPos(m, h) == CHOOSE e \in 1..Len(m) : m[e].h = h

\* Mutant of buildHashIndex: a position is pushed to its bucket without the
\* isEqual check.
RECURSIVE buildHashIndexAll(_, _, _, _)
buildHashIndexAll(arr, hf, i, m) ==
  IF i > Len(arr) THEN m
  ELSE With(hashCode(arr[i], hf),
            LAMBDA h :
              IF mapHas(m, h)
              THEN buildHashIndexAll(arr, hf, i + 1,
                     [m EXCEPT ![mapPos(m, h)].idx = Append(@, i - 1)])
              ELSE buildHashIndexAll(arr, hf, i + 1, Append(m, [h |-> h, idx |-> <<i - 1>>])))

\* buildHashIndex(arr, hashFunction)
RECURSIVE buildHashIndex(_, _, _, _)
buildHashIndex(arr, hf, i, m) ==
  IF i > Len(arr) THEN m
  ELSE With(hashCode(arr[i], hf),
            LAMBDA h :
              IF mapHas(m, h)
              THEN IF ~\E n \in 1..Len(m[mapPos(m, h)].idx) :
                         isEqual(arr[m[mapPos(m, h)].idx[n] + 1], arr[i])
                   THEN buildHashIndex(arr, hf, i + 1,
                          [m EXCEPT ![mapPos(m, h)].idx = Append(@, i - 1)])
                   ELSE buildHashIndex(arr, hf, i + 1, m)
              ELSE buildHashIndex(arr, hf, i + 1, Append(m, [h |-> h, idx |-> <<i - 1>>])))

\* unique(input, hashFunction): the positions of the index keep their
\* element, every other position is dropped.
unique(input, hf) ==
  With(buildHashIndex(input, hf, 1, <<>>),
       LAMBDA m :
         LET kept == UNION {{m[e].idx[n] + 1 : n \in 1..Len(m[e].idx)} : e \in 1..Len(m)}
             marked == [i \in 1..Len(input) |-> IF i \in kept THEN input[i] ELSE MISSING]
         IN SelectSeq(marked, LAMBDA v : v # MISSING))

\* One round of the loop of intersection over the arrays after the
\* smallest, for the bucket of hash k: lhs are the bucket's values of the
\* smallest array; st holds res, stable and found.
matchAt(rhs, v) == {m \in 1..Len(rhs) : isEqual(v, rhs[m])}
firstMatch(rhs, v) == CHOOSE m \in matchAt(rhs, v) : \A m2 \in matchAt(rhs, v) : m <= m2

RECURSIVE bucketLoop(_, _, _, _, _, _, _)
bucketLoop(input, sortedIndex, hf, k, lhs, i, st) ==
  IF i > Len(input) THEN st
  ELSE LET currIndex == sortedIndex[i][1]
           arr == input[currIndex + 1].a
       IN With(buildHashIndex(arr, DEFAULT_HASH_FUNCTION, 1, <<>>),
               LAMBDA rmap :
                 IF mapHas(rmap, k)
                 THEN LET at == rmap[mapPos(rmap, k)].idx
                          rhs == [m \in 1..Len(at) |-> arr[at[m] + 1]]
                          hit(n) == matchAt(rhs, lhs[n]) # {}
                          st1 == [res |-> [n \in 1..Len(lhs) |->
                                             IF hit(n) THEN st.res[n] + 1 ELSE st.res[n]],
                                  stable |-> [n \in 1..Len(lhs) |->
                                                IF hit(n) /\ currIndex < st.stable[n][1]
                                                THEN <<currIndex, at[firstMatch(rhs, lhs[n])]>>
                                                ELSE st.stable[n]],
                                  found |-> \E n \in 1..Len(lhs) : hit(n)]
                      IN IF ~st1.found THEN st1
                         ELSE bucketLoop(input, sortedIndex, hf, k, lhs, i + 1, st1)
                 ELSE IF ~st.found THEN st
                 ELSE bucketLoop(input, sortedIndex, hf, k, lhs, i + 1, st))

\* Mutant of inAll: the smallest array is counted among the others.
inEvery(input, n) == n = Len(input)

\* n === input.length - 1: the value was found in every other array
inAll(input, n) == n = Len(input) - 1

\* The callback of map.forEach in intersection: the [value, stable] pairs
\* the bucket adds to results.
bucketResults(input, sortedIndex, hf, smallest, e) ==
  LET lhs == [n \in 1..Len(e.idx) |-> smallest[e.idx[n] + 1]]
  IN With(bucketLoop(input, sortedIndex, hf, e.h, lhs, 2,
                     [res |-> [n \in 1..Len(lhs) |-> 0],
                      stable |-> [n \in 1..Len(lhs) |-> <<sortedIndex[1][1], 0>>],
                      found |-> FALSE]),
          LAMBDA st :
            IF ~st.found THEN <<>>
            ELSE LET pairs == [n \in 1..Len(lhs) |->
                                 [v |-> lhs[n], stable |-> st.stable[n], n |-> st.res[n]]]
                 IN SelectSeq(pairs, LAMBDA q : inAll(input, q.n)))

RECURSIVE eachBucket(_, _, _, _, _, _, _)
eachBucket(input, sortedIndex, hf, smallest, m, e, results) ==
  IF e > Len(m) THEN results
  ELSE eachBucket(input, sortedIndex, hf, smallest, m, e + 1,
                  results \o bucketResults(input, sortedIndex, hf, smallest, m[e]))

\* intersection(input, hashFunction) of an array of arrays
intersection(input, hf) ==
  IF \E i \in 1..Len(input) : Len(input[i].a) = 0 THEN <<>>
  ELSE IF Len(input) = 1 THEN input
  ELSE With(sortBy([i \in 1..Len(input) |-> <<i - 1, Len(input[i].a)>>],
                   [i \in 1..Len(input) |-> Num(Len(input[i].a))]),
            LAMBDA sortedIndex :
              With(input[sortedIndex[1][1] + 1].a,
                   LAMBDA smallest :
                     With(eachBucket(input, sortedIndex, hf, smallest,
                                     buildHashIndex(smallest, hf, 1, <<>>), 1, <<>>),
                          LAMBDA results :
                            With(sortArray(results, Compared(results,
                                   LAMBDA x, y :
                                     IF compare1(Num(x.stable[1]), Num(y.stable[1])) # 0
                                     THEN compare1(Num(x.stable[1]), Num(y.stable[1]))
                                     ELSE compare1(Num(x.stable[2]), Num(y.stable[2])))),
                                 LAMBDA sorted :
                                   [i \in 1..Len(sorted) |-> sorted[i].v]))))

\* $in$1(a, b, options) with options.hashFunction
in1(a, b, hf) ==
  IF isNil(a) THEN \E i \in 1..Len(b.a) : b.a[i] = Null
  ELSE Len(intersection(<<Arr(ensureArray1(a)), b>>, hf)) > 0

(***************************************************************************)
(* Update engine                                                           *)
(***************************************************************************)
\* The array-filter segments "$[<identifier>]" of the model's selectors and
\* the identifier between the brackets.
FilterSegments == <<"$[]", "$[x]", "$[y]", "$[X]">>
FilterIdents == <<"", "x", "y", "X">>
isFilterSegment(seg) == \E i \in 1..Len(FilterSegments) : FilterSegments[i] = seg
identOf(seg) == FilterIdents[CHOOSE i \in 1..Len(FilterSegments) : FilterSegments[i] = seg]

\* FILTER_IDENT_RE /^[a-z]+[a-zA-Z0-9]*$/ on the identifiers of the model.
FILTER_IDENT_RE(child) == child \in {"x", "y"}

\* Results of the operations that mutate in place: the object as the call
\* leaves it, whether a change was reported, and whether an error was thrown.
Res(o, b, err) == [o |-> o, b |-> b, err |-> err]

\* tokenizePath(selector): the path node, the filter identifiers, and
\* whether the identifier assertion failed.  A node without a child has
\* child = "" and a node without a next node has next = <<>>.
RECURSIVE tokenizePath(_)
tokenizePath(selector) ==
  IF ~\E i \in 2..Len(selector) : isFilterSegment(selector[i])
  THEN [node |-> [selector |-> selector, parent |-> selector, child |-> "", next |-> <<>>],
        vars |-> <<>>, err |-> FALSE]
  ELSE LET begin == CHOOSE i \in 2..Len(selector) :
                      /\ isFilterSegment(selector[i])
                      /\ \A j \in 2..(i - 1) : ~isFilterSegment(selector[j])
           parent == SubSeq(selector, 1, begin - 1)
           child == identOf(selector[begin])
           rest == SubSeq(selector, begin + 1, Len(selector))
           sub == IF Len(rest) > 0 THEN tokenizePath(rest)
                  ELSE [node |-> <<>>, vars |-> <<>>, err |-> FALSE]
       IN IF ~(child = "" \/ FILTER_IDENT_RE(child))
          THEN [node |-> <<>>, vars |-> <<>>, err |-> TRUE]
          ELSE [node |-> [selector |-> selector, parent |-> parent,
                          child |-> IF child = "" THEN "$" ELSE child,
                          next |-> IF Len(rest) > 0 THEN <<sub.node>> ELSE <<>>],
                vars |-> (IF child = "" THEN <<>> ELSE <<child>>) \o sub.vars,
                err |-> sub.err]

\* clone(mode, val): "copy" and "deep" build a new value equal to val.
clone(mode, val) == val

\* Mutant of set: the value is assigned and reported without the isEqual test.
setAlways(val, o, k) == Res(Put(o, k, clone("copy", val)), TRUE, FALSE)

\* The update function f(o, k) of $set
set(val, o, k) ==
  IF isEqual(Get(o, k), val) THEN Res(o, FALSE, FALSE)
  ELSE Res(Put(o, k, clone("copy", val)), TRUE, FALSE)

\* The update function f(o, k) of $inc: o[k] = (o[k] || (o[k] = 0)) + val
inc(val, o, k) ==
  LET cur == Get(o, k)
  IN Res(Put(o, k, jsAdd(IF Truthy(cur) THEN cur ELSE Num(0), val)), TRUE, FALSE)

\* The update function f(o, k) of $mul
mul(val, o, k) ==
  LET prev == Get(o, k)
      new == IF prev.t = "undefined" THEN Num(0) ELSE jsMul(prev, val)
  IN Res(Put(o, k, new), strictNotEqual(new, prev), FALSE)

\* The update function f(o, k) of $bit
bit(val, o, k) ==
  LET cur == Get(o, k)
      bop == val.o[1].k
      v == val.o[1].v
  IN IF cur.t # "undefined" /\ ~(isNumber(cur) /\ isNumber(v))
     THEN Res(o, FALSE, FALSE)
     ELSE LET n == IF Truthy(cur) THEN cur ELSE Num(0)
              new == Num(bitOp(bop, n.n, v.n))
          IN Res(Put(o, k, new), strictNotEqual(new, n), FALSE)

\* The update function f(o, k) of $pop; the assertion that o[k] is an
\* array fails inside f.
pop(val, o, k) ==
  LET arr == Get(o, k)
  IN IF ~isArray(arr) THEN Res(o, FALSE, TRUE)
     ELSE IF Len(arr.a) = 0 THEN Res(o, FALSE, FALSE)
     ELSE IF val = Num(-1) THEN Res(Put(o, k, Arr(Tail(arr.a))), TRUE, FALSE)
     ELSE Res(Put(o, k, Arr(SubSeq(arr.a, 1, Len(arr.a) - 1))), TRUE, FALSE)

\* OPERATOR_MODIFIERS
OPERATOR_MODIFIERS == {"$each", "$slice", "$sort", "$position"}

\* arr.splice(pos, 0, ...items): a negative pos counts from the end, a pos
\* beyond the end appends.
spliceIn(arr, pos, items) ==
  LET at == IF pos < 0 THEN (IF Len(arr) + pos < 0 THEN 0 ELSE Len(arr) + pos)
            ELSE IF pos > Len(arr) THEN Len(arr) ELSE pos
  IN SubSeq(arr, 1, at) \o items \o SubSeq(arr, at + 1, Len(arr))

\* arr.slice(0, end)
sliceTo(arr, end) ==
  LET to == IF end < 0 THEN (IF Len(arr) + end < 0 THEN 0 ELSE Len(arr) + end)
            ELSE IF end > Len(arr) THEN Len(arr) ELSE end
  IN SubSeq(arr, 1, to)

\* Mutant of sliceArray: a negative $slice keeps the first elements.
sliceArrayHead(arr, n) ==
  IF n < 0 THEN sliceTo(arr, 0 - n) ELSE sliceTo(arr, n)

\* The slicing of $push: arr.splice(0, arr.length + $slice) for a negative
\* $slice, arr.splice($slice) otherwise.
sliceArray(arr, n) ==
  IF n < 0
  THEN (IF Len(arr) + n <= 0 THEN arr ELSE SubSeq(arr, Len(arr) + n + 1, Len(arr)))
  ELSE sliceTo(arr, n)

\* The sorting of $push: by the last key of a $sort mapping, or the
\* elements themselves for a $sort number; order * compare(f(a), f(b)).
sortItems(arr, sort) ==
  LET sortKey == IF isObject(sort) /\ Len(sort.o) > 0 THEN sort.o[Len(sort.o)].k ELSE ""
      order == IF sortKey = "" THEN sort ELSE Get(sort, sortKey)
      f(x) == IF sortKey = "" THEN x ELSE resolve(x, <<sortKey>>, FALSE)
  IN IF ~isNumber(order) THEN arr
     ELSE sortArray(arr, Compared(arr, LAMBDA x, y : order.n * compare1(f(x), f(y))))

\* The update function f(o, k) of $push.  $each is an array; a value of
\* o[k] that is truthy and no array has no splice and throws.
pushItems(val, o, k) ==
  LET modified == isObject(val) /\ \E m \in OPERATOR_MODIFIERS : has(val, m)
      each == IF modified /\ has(val, "$each") THEN Get(val, "$each").a ELSE <<val>>
      slice == IF modified THEN Get(val, "$slice") ELSE Undefined
      sort == IF modified THEN Get(val, "$sort") ELSE Undefined
      position == IF modified THEN Get(val, "$position") ELSE Undefined
      arr == IF Truthy(Get(o, k)) THEN Get(o, k) ELSE Arr(<<>>)
  IN IF ~isArray(arr) THEN Res(o, FALSE, TRUE)
     ELSE LET prev == sliceTo(arr.a, IF Truthy(slice) THEN slice.n ELSE Len(arr.a))
              oldsize == Len(arr.a)
              pos == IF isNumber(position) THEN position.n ELSE Len(arr.a)
              inserted == spliceIn(arr.a, pos, clone("copy", Arr(each)).a)
              sorted == IF Truthy(sort) THEN sortItems(inserted, sort) ELSE inserted
              sliced == IF isNumber(slice) THEN sliceArray(sorted, slice.n) ELSE sorted
          IN Res(Put(o, k, Arr(sliced)),
                 oldsize # Len(sliced) \/ ~isEqual(Arr(prev), Arr(sliced)), FALSE)

\* delete o[k] on a mapping
Del(o, k) ==
  IF has(o, k)
  THEN Obj(SubSeq(o.o, 1, KeyPos(o, k) - 1) \o SubSeq(o.o, KeyPos(o, k) + 1, Len(o.o)))
  ELSE o

\* The callback of setValue(obj, selector, value): item[key] = value
setValueAt(val, o, k) == Res(Put(o, k, val), TRUE, FALSE)

\* The callback of removeValue(obj, selector, options)
removeValueAt(descendArray, o, k) ==
  IF isArray(o)
  THEN IF NUMBER_RE(k)
       THEN Res(IF KeyIndex(k) < Len(o.a) THEN Arr(dropItem(o.a, KeyIndex(k) + 1)) ELSE o,
                TRUE, FALSE)
       ELSE IF descendArray
       THEN Res(Arr([i \in 1..Len(o.a) |->
                       IF isObject(o.a[i]) THEN Del(o.a[i], k) ELSE o.a[i]]),
                TRUE, FALSE)
       ELSE Res(o, FALSE, FALSE)
  ELSE IF isObject(o) THEN Res(Del(o, k), TRUE, FALSE)
  ELSE Res(o, FALSE, FALSE)

\* f(o, k) of operator op
\* The update function f(o, k) of $addToSet: prev = o[k] || (o[k] = []);
\* nothing is reported when every value of $each is in prev already.
addToSet(val, o, k) ==
  LET each == IF isObject(val) /\ has(val, "$each") THEN Get(val, "$each").a ELSE <<val>>
      prev == IF Truthy(Get(o, k)) THEN Get(o, k) ELSE Arr(<<>>)
      o1 == IF Truthy(Get(o, k)) THEN o ELSE Put(o, k, Arr(<<>>))
  IN With(intersection(<<prev, Arr(each)>>, "distinct"),
          LAMBDA common :
            IF Len(common) = Len(each) THEN Res(o1, FALSE, FALSE)
            ELSE Res(Put(o1, k, clone("copy", Arr(unique(prev.a \o each, "distinct")))),
                     TRUE, FALSE))

mutate(op, val, node, o, k) ==
  CASE op = "setValue" -> setValueAt(val, o, k)
    [] op = "removeValue" -> removeValueAt(TRUE, o, k)
    [] op = "$set" -> set(val, o, k)
    [] op = "$inc" -> inc(val, o, k)
    [] op = "$mul" -> mul(val, o, k)
    [] op = "$bit" -> bit(val, o, k)
    [] op = "$pop" -> pop(val, o, k)
    [] op = "$push" -> pushItems(val, o, k)
    [] op = "$addToSet" -> addToSet(val, o, k)

\* The WalkOptions each operator passes to applyUpdate.
walkOptions(op) ==
  [buildGraph |-> op \in {"$set", "$inc", "$mul", "$bit", "$push", "$addToSet", "setValue"},
   descendArray |-> op \in {"$push", "removeValue"}]

\* walk(obj, selector, fn, options) with fn the wrapper g of applyUpdate that
\* collects the status of f.  Selectors of the model have at most two plain
\* segments in a row, so obj is a mapping when more than one name is left.
RECURSIVE walk(_, _, _, _, _, _)
RECURSIVE walkEach(_, _, _, _, _, _, _, _)
walk(obj, names, op, val, node, opts) ==
  LET key == names[1]
      rest == Tail(names)
  IN IF Len(names) = 1
     THEN IF isObject(obj) \/ (isArray(obj) /\ NUMBER_RE(key))
          THEN mutate(op, val, node, obj, key)
          ELSE Res(obj, FALSE, FALSE)
     ELSE IF ~isObjectLike(obj)
     THEN \* obj[key] on null or undefined and, in strict mode, obj[key] = {}
          \* on a primitive throw a TypeError
          IF opts.buildGraph \/ isNil(obj) THEN Res(obj, FALSE, TRUE)
          ELSE Res(obj, FALSE, FALSE)
     ELSE LET built == IF opts.buildGraph /\ isNil(Get(obj, key))
                       THEN Put(obj, key, Obj(<<>>)) ELSE obj
              item == Get(built, key)
              isNextArrayIndex == NUMBER_RE(names[2])
          IN IF ~Truthy(item) THEN Res(built, FALSE, FALSE)
             ELSE IF isArray(item) /\ opts.descendArray /\ ~isNextArrayIndex
             THEN With(walkEach(item.a, 1, rest, op, val, node, opts, FALSE),
                       LAMBDA r : Res(Put(built, key, Arr(r.o)), r.b, r.err))
             ELSE With(walk(item, rest, op, val, node, opts),
                       LAMBDA r : Res(Put(built, key, r.o), r.b, r.err))

\* item.forEach(e => walk(e, next, fn, options))
walkEach(items, i, names, op, val, node, opts, b) ==
  IF i > Len(items) THEN Res(items, b, FALSE)
  ELSE With(walk(items[i], names, op, val, node, opts),
            LAMBDA r :
              With([items EXCEPT ![i] = r.o],
                   LAMBDA items1 :
                     IF r.err THEN Res(items1, b, TRUE)
                     ELSE walkEach(items1, i + 1, names, op, val, node, opts, r.b \/ b)))

\* Assign v at a path that leads through mappings and array indexes: the
\* write-back of a value resolve() returned by reference.
RECURSIVE setAt(_, _, _)
setAt(o, path, v) ==
  IF Len(path) = 0 THEN v
  ELSE Put(o, path[1], setAt(Get(o, path[1]), Tail(path), v))

\* Mutant of hasQuery: the identifier's query is never found.
hasQueryNever(q, c) == FALSE

\* The query of identifier c in the map q of identifier queries.
hasQuery(q, c) == \E i \in 1..Len(q) : q[i].k = c
queryOf(q, c) == q[CHOOSE i \in 1..Len(q) : q[i].k = c].v

\* applyUpdate(o, n, q, f, opts)
RECURSIVE applyUpdate(_, _, _, _, _, _)
RECURSIVE applyItems(_, _, _, _, _, _, _, _)
applyUpdate(o, n, q, op, val, opts) ==
  IF n.child = ""
  THEN walk(o, n.parent, op, val, n, opts)
  ELSE With(resolve(o, n.parent, FALSE),
            LAMBDA t :
              IF ~isArray(t) THEN Res(o, FALSE, FALSE)
              ELSE With(applyItems(t, 1, n, q, op, val, opts, FALSE),
                        LAMBDA r : Res(setAt(o, n.parent, r.o), r.b, r.err)))

\* t.map((e, i) => ...).some(Boolean)
applyItems(t, i, n, q, op, val, opts, b) ==
  IF i > Len(t.a) THEN Res(t, b, FALSE)
  ELSE LET e == t.a[i]
       IN IF hasQuery(q, n.child)
             /\ ~test(queryOf(q, n.child), Obj(<<Entry(n.child, e)>>))
          THEN applyItems(t, i + 1, n, q, op, val, opts, b)
          ELSE With(IF Len(n.next) > 0
                    THEN With(applyUpdate(e, n.next[1], q, op, val, opts),
                              LAMBDA s : Res(Put(t, NumericKeys[i], s.o), s.b, s.err))
                    ELSE mutate(op, val, n, t, NumericKeys[i]),
                    LAMBDA r :
                      IF r.err THEN r
                      ELSE applyItems(r.o, i + 1, n, q, op, val, opts, b \/ r.b))

\* The conditions walkExpression collects for the identifiers vars from the
\* array filters: for each filter document o, each key k of o and each
\* identifier w, k === w || k.startsWith(w + ".") puts o[k] under
\* conditions[w][k] (Object.assign: a repeated key keeps its place and takes
\* the later value).
assignCondition(cond, e) ==
  IF \E i \in 1..Len(cond) : cond[i].field = e.field
  THEN [i \in 1..Len(cond) |-> IF cond[i].field = e.field THEN e ELSE cond[i]]
  ELSE Append(cond, e)

\* conditions[w] gains the entry e when e's key is w or starts with w + ".".
addCondition(c, w, e) ==
  IF e.field[1] # w THEN c
  ELSE IF \E i \in 1..Len(c) : c[i].k = w
  THEN [i \in 1..Len(c) |->
          IF c[i].k = w THEN Entry(w, assignCondition(c[i].v, e)) ELSE c[i]]
  ELSE Append(c, Entry(w, <<e>>))

RECURSIVE overIdents(_, _, _, _)
overIdents(c, e, idents, m) ==
  IF m > Len(idents) THEN c
  ELSE overIdents(addCondition(c, idents[m], e), e, idents, m + 1)

RECURSIVE collectKeys(_, _, _, _)
collectKeys(conditions, o, j, idents) ==
  IF j > Len(o) THEN conditions
  ELSE collectKeys(overIdents(conditions, o[j], idents, 1), o, j + 1, idents)

RECURSIVE collectConditions(_, _, _, _)
collectConditions(conditions, arrayFilter, i, idents) ==
  IF i > Len(arrayFilter) THEN conditions
  ELSE collectConditions(collectKeys(conditions, arrayFilter[i], 1, idents),
                         arrayFilter, i + 1, idents)

\* What an operator's callback does before it calls applyUpdate; TRUE when
\* an assertion fails there.
precheck(op, val, node, obj) ==
  CASE op = "$inc" ->
         /\ node.child = ""
         /\ LET n == resolve(obj, node.parent, FALSE)
            IN ~(n.t = "undefined" \/ isNumber(n))
    [] op = "$bit" ->
         ~(isObject(val) /\ Len(val.o) = 1 /\ val.o[1].k \in {"and", "or", "xor"})
    [] OTHER -> FALSE

\* Mutant of reportedPath: the whole selector is reported.
reportedSelector(node) == node.selector

\* res.push(node.parent): the path walkExpression reports for a selector.
reportedPath(node) == node.parent

\* walkExpression(expr, arrayFilter, options, callback) with the callback
\* of operator op: each selector of expr in turn; the object is mutated in
\* place, so an error leaves the mutations made so far.
RECURSIVE walkExpression(_, _, _, _, _, _)
RECURSIVE walkSelector(_, _, _, _, _, _, _, _)
walkExpression(op, obj, expr, arrayFilter, i, res) ==
  IF i > Len(expr) THEN [o |-> obj, res |-> res, err |-> FALSE]
  ELSE With(tokenizePath(expr[i].selector),
            LAMBDA tk :
              With(collectConditions(<<>>, arrayFilter, 1, tk.vars),
                   LAMBDA conds :
                     With([j \in 1..Len(conds) |-> Entry(conds[j].k, Query(conds[j].v))],
                          LAMBDA queries :
                            walkSelector(op, obj, expr, arrayFilter, i, res, tk, queries))))

\* The rest of the loop body of walkExpression for the selector of node
\* tk.node with the queries of its identifiers: the operator's callback,
\* then res.push(node.parent) when it reports a change.
walkSelector(op, obj, expr, arrayFilter, i, res, tk, queries) ==
  LET val == expr[i].val
  IN IF tk.err \/ (\E j \in 1..Len(queries) : ~queries[j].v.ok)
        \/ precheck(op, val, tk.node, obj)
     THEN [o |-> obj, res |-> res, err |-> TRUE]
     ELSE With(applyUpdate(obj, tk.node, queries, op, val, walkOptions(op)),
               LAMBDA r :
                 IF r.err THEN [o |-> r.o, res |-> res, err |-> TRUE]
                 ELSE walkExpression(op, r.o, expr, arrayFilter, i + 1,
                        IF r.b THEN Append(res, reportedPath(tk.node)) ELSE res))

UPDATE_OPERATORS == {"$addToSet", "$bit", "$currentDate", "$inc", "$max", "$min",
                     "$mul", "$pop", "$pull", "$pullAll", "$push", "$rename",
                     "$set", "$unset"}

\* Mutant of updateObject: only an empty update document is rejected and the
\* first operator of the document is applied.
updateFirstOperator(obj, expr, arrayFilters, conditions) ==
  IF Len(expr) = 0 \/ expr[1].op \notin UPDATE_OPERATORS
  THEN [o |-> obj, res |-> <<>>, err |-> TRUE]
  ELSE IF Len(conditions) > 0 /\ ~Query(conditions).ok
  THEN [o |-> obj, res |-> <<>>, err |-> TRUE]
  ELSE IF Len(conditions) > 0 /\ ~test(Query(conditions), obj)
  THEN [o |-> obj, res |-> <<>>, err |-> FALSE]
  ELSE walkExpression(expr[1].op, obj, expr[1].args, arrayFilters, 1, <<>>)

\* updateObject = createUpdater({}): expr is the sequence of the update
\* document's [op, args] entries, args the sequence of its [selector, val]
\* entries; conditions is a query condition (empty for none).
updateObject(obj, expr, arrayFilters, conditions) ==
  IF Len(expr) # 1 \/ expr[1].op \notin UPDATE_OPERATORS
  THEN [o |-> obj, res |-> <<>>, err |-> TRUE]
  ELSE IF Len(conditions) > 0 /\ ~Query(conditions).ok
  THEN [o |-> obj, res |-> <<>>, err |-> TRUE]
  ELSE IF Len(conditions) > 0 /\ ~test(Query(conditions), obj)
  THEN [o |-> obj, res |-> <<>>, err |-> FALSE]
  ELSE walkExpression(expr[1].op, obj, expr[1].args, arrayFilters, 1, <<>>)

(***************************************************************************)
(* Projection                                                              *)
(***************************************************************************)
\* resolveGraph(obj, selector, {preserveMissing})
RECURSIVE resolveGraph(_, _, _)
resolveGraph(obj, names, preserveMissing) ==
  LET key == names[1]
      rest == Tail(names)
      hasNext == Len(names) > 1
  IN IF isArray(obj)
     THEN IF NUMBER_RE(key)
          THEN With(getValue(obj, key),
                    LAMBDA r : Arr(<<IF hasNext THEN resolveGraph(r, rest, preserveMissing)
                                     ELSE r>>))
          ELSE With([i \in 1..Len(obj.a) |-> resolveGraph(obj.a[i], names, preserveMissing)],
                    LAMBDA values :
                      IF preserveMissing
                      THEN Arr([i \in 1..Len(values) |->
                                  IF values[i] = Undefined THEN MISSING ELSE values[i]])
                      ELSE Arr(SelectSeq(values, LAMBDA v : v # Undefined)))
     ELSE With(IF hasNext THEN resolveGraph(getValue(obj, key), rest, preserveMissing)
               ELSE getValue(obj, key),
               LAMBDA v : IF v = Undefined THEN Undefined ELSE Obj(<<Entry(key, v)>>))

\* mergeable(left, right)
mergeable(left, right) ==
  (isObject(left) /\ isObject(right)) \/ (isArray(left) /\ isArray(right))

\* merge(target, obj, {flatten: true}) below the first call, where
\* options.skipValidation is set
RECURSIVE mergeInto(_, _)
RECURSIVE mergeKeys(_, _, _)
RECURSIVE mergeItems(_, _, _)
mergeInto(target, obj) ==
  IF isMissing(target) \/ isNil(target) THEN obj
  ELSE IF isMissing(obj) \/ isNil(obj) THEN target
  ELSE IF ~mergeable(target, obj) THEN (IF Truthy(obj) THEN obj ELSE target)
  ELSE IF isArray(target) THEN Arr(mergeItems(target.a, obj.a, 1))
  ELSE mergeKeys(target, obj, 1)

\* for (const k in obj) target[k] = merge(target[k], obj[k], options)
mergeKeys(target, obj, i) ==
  IF i > Len(obj.o) THEN target
  ELSE With(mergeInto(Get(target, obj.o[i].k), obj.o[i].v),
            LAMBDA v : mergeKeys(Put(target, obj.o[i].k, v), obj, i + 1))

\* Elements in the same position are merged; the rest of the input is
\* appended.
mergeItems(items, input, i) ==
  IF i > Len(input) THEN items
  ELSE IF i <= Len(items)
  THEN With(mergeInto(items[i], input[i]),
            LAMBDA v : mergeItems([items EXCEPT ![i] = v], input, i + 1))
  ELSE mergeItems(Append(items, input[i]), input, i + 1)

\* merge(target, obj, {flatten: true}): the first call fails on inputs that
\* are not both arrays or both mappings.
merge(target, obj) ==
  IF isMissing(target) \/ isNil(target) THEN [v |-> obj, err |-> FALSE]
  ELSE IF isMissing(obj) \/ isNil(obj) THEN [v |-> target, err |-> FALSE]
  ELSE IF ~mergeable(target, obj) THEN [v |-> target, err |-> TRUE]
  ELSE [v |-> mergeInto(target, obj), err |-> FALSE]

\* Mutant of filterMissing: nothing is removed.
filterMissingShallow(obj) == obj

\* filterMissing(obj): removes every MISSING element of the arrays of obj
RECURSIVE filterMissing(_)
filterMissing(obj) ==
  IF isArray(obj)
  THEN With(SelectSeq(obj.a, LAMBDA v : v # MISSING),
            LAMBDA kept : Arr([i \in 1..Len(kept) |-> filterMissing(kept[i])]))
  ELSE IF isObject(obj)
  THEN Obj([i \in 1..Len(obj.o) |-> Entry(obj.o[i].k, filterMissing(obj.o[i].v))])
  ELSE obj

\* into({}, ...rest) on mappings: Object.assign of each in turn
RECURSIVE assign(_, _, _)
assign(target, src, i) ==
  IF i > Len(src.o) THEN target
  ELSE assign(Put(target, src.o[i].k, src.o[i].v), src, i + 1)
into(target, a, b) ==
  With(IF isObjectLike(a) THEN assign(target, a, 1) ELSE target,
       LAMBDA acc : IF isObjectLike(b) THEN assign(acc, b, 1) ELSE acc)

\* options.idKey
ID_KEY == <<"_id">>

\* The field-path strings of the model's projections and the selector after
\* the leading "$".
ExprPaths ==
  << [s |-> "$a", path |-> <<"a">>],
     [s |-> "$items.qty", path |-> <<"items", "qty">>],
     [s |-> "$z", path |-> <<"z">>] >>
isFieldPath(v) == isString(v) /\ \E i \in 1..Len(ExprPaths) : ExprPaths[i].s = v.s
pathOf(v) == ExprPaths[CHOOSE i \in 1..Len(ExprPaths) : ExprPaths[i].s = v.s].path

\* computeValue(obj, expr, key, options) for a string or literal expr under
\* a key that is no operator: a field path resolves on the root document,
\* any other value is returned as it is.
computeValue(obj, expr) ==
  IF isFieldPath(expr) THEN resolve(obj, pathOf(expr), FALSE) ELSE expr

\* v === 0 || v === false, and v === 1 || v === true
isExclusion(v) == v = Num(0) \/ v = Bool(FALSE)
isInclusion(v) == v = Num(1) \/ v = Bool(TRUE)

\* validateExpression(expr, options): TRUE when the assertion fails.
RECURSIVE validateExpression(_, _, _, _)
validateExpression(expr, i, excluded, included) ==
  IF i > Len(expr.o) \/ expr.o[i].k = ID_KEY THEN FALSE
  ELSE LET v == expr.o[i].v
           e == excluded \/ isExclusion(v)
           n == included \/ (~isExclusion(v) /\ isInclusion(v))
       IN (e /\ n) \/ validateExpression(expr, i + 1, e, n)

\* The end of processObject's loop body for a key that is kept: the path
\* graph of the key is merged into newObj, then a computed value is set
\* (or, when undefined, removed).
keepKey(obj, key, subExpr, val, st) ==
  With(resolveGraph(obj, key, TRUE),
       LAMBDA g :
         With(IF g # Undefined THEN merge(st.newObj, g)
              ELSE [v |-> st.newObj, err |-> FALSE],
              LAMBDA m :
                IF m.err THEN [st EXCEPT !.err = TRUE]
                ELSE IF ~(isExclusion(subExpr) \/ isInclusion(subExpr))
                THEN With(IF val = Undefined
                          THEN walk(m.v, key, "removeValue", val, <<>>,
                                    walkOptions("removeValue"))
                          ELSE walk(m.v, key, "setValue", val, <<>>,
                                    walkOptions("setValue")),
                          LAMBDA r : [st EXCEPT !.newObj = r.o, !.err = r.err])
                ELSE [st EXCEPT !.newObj = m.v]))

\* One round of processObject's loop.  The sub-expressions of the model are
\* 0, 1, booleans, field paths and literals (no arrays, no mappings).
processKey(obj, expr, key, st) ==
  LET subExpr == Get(expr, key)
      st1 == [st EXCEPT !.foundExclusion =
                @ \/ (key # ID_KEY /\ isExclusion(subExpr))]
  IN IF key = ID_KEY /\ isEmpty(subExpr)
     THEN keepKey(obj, key, subExpr, Get(obj, key[1]), st1)
     ELSE IF isString(subExpr)
     THEN keepKey(obj, key, subExpr, computeValue(obj, subExpr), st1)
     ELSE IF isInclusion(subExpr)
     THEN keepKey(obj, key, subExpr, Undefined, st1)
     ELSE [st1 EXCEPT !.dropKeys = Append(@, key)]

RECURSIVE processKeys(_, _, _, _, _)
processKeys(obj, expr, expressionKeys, i, st) ==
  IF i > Len(expressionKeys) \/ st.err THEN st
  ELSE With(processKey(obj, expr, expressionKeys[i], st),
            LAMBDA st1 : processKeys(obj, expr, expressionKeys, i + 1, st1))

\* removeValue(newObj, k, {descendArray: true}) for each dropped key, after
\* newObj = into({}, obj, newObj).  A field of newObj that is not one of its
\* own is the very value of obj, so a removal below it shows in obj too.
RECURSIVE dropAll(_, _, _, _, _)
dropAll(newObj, obj, own, dropKeys, i) ==
  IF i > Len(dropKeys) THEN [newObj |-> newObj, obj |-> obj, err |-> FALSE]
  ELSE With(walk(newObj, dropKeys[i], "removeValue", Undefined, <<>>,
                 walkOptions("removeValue")),
            LAMBDA r :
              With(IF Len(dropKeys[i]) > 1 /\ has(obj, dropKeys[i][1])
                      /\ ~has(own, dropKeys[i][1])
                   THEN Put(obj, dropKeys[i][1], Get(r.o, dropKeys[i][1]))
                   ELSE obj,
                   LAMBDA obj1 :
                     IF r.err THEN [newObj |-> r.o, obj |-> obj1, err |-> TRUE]
                     ELSE dropAll(r.o, obj1, own, dropKeys, i + 1)))

\* processObject(obj, expr, options, expressionKeys, idOnlyExcluded): the
\* new document, the source document as the call leaves it, and whether an
\* error was thrown.
processObject(obj, expr, expressionKeys, idOnlyExcluded) ==
  With(processKeys(obj, expr, expressionKeys, 1,
                   [newObj |-> Obj(<<>>), foundExclusion |-> FALSE,
                    dropKeys |-> IF idOnlyExcluded THEN <<ID_KEY>> ELSE <<>>,
                    err |-> FALSE]),
       LAMBDA st :
         IF st.err THEN [newObj |-> Undefined, obj |-> obj, err |-> TRUE]
         ELSE With(filterMissing(st.newObj),
                   LAMBDA own :
                     IF st.foundExclusion \/ idOnlyExcluded
                     THEN dropAll(into(Obj(<<>>), obj, own), obj, own, st.dropKeys, 1)
                     ELSE [newObj |-> own, obj |-> obj, err |-> FALSE]))

(***************************************************************************)
(* Evaluation context                                                      *)
(***************************************************************************)
\* ComputeOptions.update(root, local) on the context self: the root is
\* replaced, and a truthy local is copied with its variables laid over the
\* variables the context holds at the time of the call.
coptsUpdate(self, root, local) ==
  [self EXCEPT
     !._root = root,
     !._local =
        IF Truthy(local)
        THEN into(Obj(<<>>), local,
                  Obj(<<Entry("variables",
                              into(Obj(<<>>), Get(self._local, "variables"),
                                   Get(local, "variables")))>>))
        ELSE local]

\* new ComputeOptions(_opts, _root, _local): the fields are stored and
\* update(_root, _local) is called on the new object.
ComputeOptions(_opts, _root, _local) ==
  coptsUpdate([t |-> "ComputeOptions", _opts |-> _opts, _root |-> _root,
               _local |-> _local], _root, _local)

\* ComputeOptions.init(options, root, local)
coptsInit(options, root, local) ==
  IF options.t = "ComputeOptions"
  THEN ComputeOptions(options._opts,
                      IF isNil(options._root) THEN root ELSE options._root,
                      into(Obj(<<>>), options._local, local))
  ELSE ComputeOptions(options, root, local)

(***************************************************************************)
(* Lazy iterator                                                           *)
(***************************************************************************)
\* An iteratee's function.  "test" is the cursor's predicate x => q.test(x);
\* "addOne", "double", "isOdd" and "isSmall" are callers' functions on numbers.
\* A source element of a cursor is a reference to a document of the
\* collection: its position and the document it points to.
Ref(i, doc) == [ref |-> i, doc |-> doc]
ApplyFunc(func, o) ==
  CASE func.kind = "test" -> test(func.q, o.doc)
    [] func.kind = "processObject" -> func.graph[o]
    [] func.kind = "addOne" -> Num(o.n + 1)
    [] func.kind = "double" -> Num(2 * o.n)
    [] func.kind = "isOdd" -> o.n % 2 = 1
    [] func.kind = "isSmall" -> o.n < 3

\* new Iterator(source) over an array: nextVal's index, the staged
\* iteratees, createCallback's done flag and index, the yielded values.
Lazy(source) ==
  [kind |-> "array", data |-> source, pos |-> 0, iters |-> <<>>,
   iteratees |-> <<>>, done |-> FALSE, index |-> -1,
   yieldedValues |-> <<>>, isDone |-> FALSE]

\* Iterator.push(action, value)
push(it, action, value) ==
  [it EXCEPT !.iteratees =
     Append(@, IF action \in {"TAKE", "DROP"}
               THEN [action |-> action, count |-> value]
               ELSE [action |-> action, func |-> value])]

\* Iterator.filter(predicate)
filter(it, pred) == push(it, "FILTER", pred)

\* Iterator.map(f)
map(it, f) == push(it, "MAP", f)

\* Iterator.take(n), which $limit calls
take(it, n) == IF n > 0 THEN push(it, "TAKE", n) ELSE it

\* Iterator.drop(n), which $skip calls
drop(it, n) == IF n > 0 THEN push(it, "DROP", n) ELSE it


\* The inner `while (++i < size)` loop of createCallback over the staged
\* iteratees: either the value comes through ("yield") or the outer loop
\* pulls again ("continue").
RECURSIVE runIteratees(_, _, _, _, _, _)
runIteratees(iteratees, i, size, o, index, innerDone) ==
  IF i > size \/ i > Len(iteratees)
  THEN [iteratees |-> iteratees, out |-> "yield", o |-> o, innerDone |-> innerDone]
  ELSE LET r == iteratees[i]
       IN CASE r.action = "MAP" ->
                 runIteratees(iteratees, i + 1, size, ApplyFunc(r.func, o), index, innerDone)
            [] r.action = "FILTER" ->
                 IF ~ApplyFunc(r.func, o)
                 THEN [iteratees |-> iteratees, out |-> "continue", o |-> o,
                       innerDone |-> innerDone]
                 ELSE runIteratees(iteratees, i + 1, size, o, index, innerDone)
            [] r.action = "TAKE" ->
                 runIteratees([iteratees EXCEPT ![i].count = @ - 1], i + 1, size, o,
                              index, IF r.count - 1 = 0 THEN TRUE ELSE innerDone)
            [] r.action = "DROP" ->
                 [iteratees |-> IF r.count - 1 = 0 THEN dropItem(iteratees, i)
                                ELSE [iteratees EXCEPT ![i].count = @ - 1],
                  out |-> "continue", o |-> o, innerDone |-> innerDone]

\* createCallback(nextFn, iteratees, buffer)(storeResult) and the source's
\* nextVal: an array source yields data[index++] and throws DONE at its end;
\* compose(...) asks its iterators in turn.
RECURSIVE getNext(_, _)
RECURSIVE composeNext(_)
RECURSIVE afterIteratees(_, _, _)
getNext(it, storeResult) ==
  IF it.done THEN [it |-> it, done |-> TRUE, value |-> Undefined]
  ELSE With(IF it.kind = "array"
            THEN IF it.pos < Len(it.data)
                 THEN [it |-> [it EXCEPT !.pos = @ + 1], thrown |-> FALSE,
                       value |-> it.data[it.pos + 1]]
                 ELSE [it |-> it, thrown |-> TRUE, value |-> Undefined]
            ELSE composeNext(it),
            LAMBDA n :
              IF n.thrown
              THEN [it |-> [n.it EXCEPT !.done = TRUE], done |-> TRUE, value |-> Undefined]
              ELSE With(runIteratees(n.it.iteratees, 1, Len(n.it.iteratees), n.value,
                                     n.it.index + 1, FALSE),
                        LAMBDA r : afterIteratees(n.it, r, storeResult)))

\* The end of one round of createCallback's outer loop: the value is dropped
\* and the loop pulls again, is stored in the buffer, or is returned.
afterIteratees(it, r, storeResult) ==
  With([it EXCEPT !.index = @ + 1, !.iteratees = r.iteratees],
       LAMBDA it1 :
         IF r.out = "continue" THEN getNext(it1, storeResult)
         ELSE With([it1 EXCEPT !.done = r.innerDone],
                   LAMBDA it2 :
                     IF storeResult
                     THEN getNext([it2 EXCEPT !.yieldedValues = Append(@, r.o)],
                                  storeResult)
                     ELSE [it |-> it2, done |-> FALSE, value |-> r.o]))

\* The function compose(...iterators) hands to Lazy, wrapped as nextVal.
composeNext(it) ==
  IF it.pos >= Len(it.iters)
  THEN [it |-> it, thrown |-> TRUE, value |-> Undefined]
  ELSE With(getNext(it.iters[it.pos + 1], FALSE),
            LAMBDA o :
              With([it EXCEPT !.iters[it.pos + 1] = o.it],
                   LAMBDA it1 :
                     IF ~o.done THEN [it |-> it1, thrown |-> FALSE, value |-> o.value]
                     ELSE composeNext([it1 EXCEPT !.pos = @ + 1])))

\* compose(...iterators)
compose(iterators) ==
  [kind |-> "compose", data |-> <<>>, pos |-> 0, iters |-> iterators,
   iteratees |-> <<>>, done |-> FALSE, index |-> -1,
   yieldedValues |-> <<>>, isDone |-> FALSE]

\* Mutant of value: the sequence is realized again on every call.
valueAgain(it) ==
  With(getNext([it EXCEPT !.done = FALSE, !.pos = 0], TRUE),
       LAMBDA r : [r.it EXCEPT !.isDone = r.done])

\* Iterator.value()
value(it) ==
  IF ~it.isDone
  THEN With(getNext(it, TRUE), LAMBDA r : [r.it EXCEPT !.isDone = r.done])
  ELSE it

(***************************************************************************)
(* Cursor, find and remove                                                 *)
(***************************************************************************)

\* obj => processObject(obj, expr, copts.update(obj), expressionKeys,
\* idOnlyExcluded) on an element of the cursor's source: the projected
\* document, the source document as the call leaves it, and whether the
\* call threw.
processed(o, expr, expressionKeys, idOnlyExcluded) ==
  With(processObject(o.doc, expr, expressionKeys, idOnlyExcluded),
       LAMBDA r : [ref |-> o.ref, doc |-> r.newObj, src |-> r.obj, err |-> r.err])

\* The map $project stages, obj => processObject(obj, expr, ...), with the
\* expression keys and idOnlyExcluded $project computes for it, as its graph
\* on the elements of the cursor's source.
projectMap(source, expr) ==
  LET keys == [i \in 1..Len(expr.o) |-> expr.o[i].k]
      idGiven == \E i \in 1..Len(keys) : keys[i] = <<"_id">>
      idExcluded == idGiven /\ (Get(expr, <<"_id">>) = Num(0)
                                 \/ Get(expr, <<"_id">>) = Bool(FALSE))
      expressionKeys == IF idExcluded THEN SelectSeq(keys, LAMBDA k : k # <<"_id">>)
                        ELSE IF idGiven THEN keys
                        ELSE Append(keys, <<"_id">>)
  IN [o \in {source[i] : i \in 1..Len(source)} |->
        processed(o, expr, expressionKeys, idExcluded /\ Len(expressionKeys) = 0)]

\* The projection a cursor over source is given: the expression (its keys
\* are selectors) and, when it is not empty, the map staged for it.
Staged(source, expr) ==
  IF isEmpty(expr) THEN expr
  ELSE [t |-> "object", o |-> expr.o, graph |-> projectMap(source, expr)]

\* $project(collection, expr, options) once validateExpression has passed:
\* the collection itself for the empty projection the cursor adds when find
\* is given none, else the map over the documents.
project(iterator, expr) ==
  IF isEmpty(expr) THEN iterator
  ELSE push(iterator, "MAP", [kind |-> "processObject", graph |-> expr.graph])

\* Mutant of fetch: the predicate is never staged.
fetchUnfiltered(source, q, projection) == project(Lazy(source), projection)

\* Cursor.fetch(): Lazy(source).filter(predicate), then the $project stage
\* of the cursor's operators.
fetch(source, q, projection) ==
  project(filter(Lazy(source), [kind |-> "test", q |-> q]), projection)

\* Cursor.all(): fetchAll().value() with nothing buffered.
all(source, q, projection) ==
  value(compose(<<Lazy(<<>>), fetch(source, q, projection)>>)).yieldedValues

\* Mutant of next: the cursor is realized and its last document returned.
nextLast(source, q, projection) ==
  With(all(source, q, projection),
       LAMBDA a : IF Len(a) = 0 THEN Undefined ELSE a[Len(a)])

\* Cursor.next() with nothing buffered.
next(source, q, projection) ==
  With(getNext(fetch(source, q, projection), FALSE),
       LAMBDA o : IF o.done THEN Undefined ELSE o.value)

\* new Cursor(source, predicate, projection, options): no result iterator
\* yet and an empty buffer.
Cursor(source, q, projection) ==
  [source |-> source, predicate |-> q, projection |-> projection,
   result |-> Null, buffer |-> <<>>]

\* Cursor.fetch(): the cursor once its result iterator exists.
cursorFetch(c) ==
  IF c.result # Null THEN c
  ELSE [c EXCEPT !.result = fetch(c.source, c.predicate, c.projection)]

\* Cursor.next(): the cursor after the call and the value returned.
cursorNext(c) ==
  IF Len(c.buffer) > 0
  THEN [c |-> [c EXCEPT !.buffer = SubSeq(@, 1, Len(@) - 1)], val |-> c.buffer[Len(c.buffer)]]
  ELSE With(getNext(cursorFetch(c).result, FALSE),
            LAMBDA o : [c |-> [cursorFetch(c) EXCEPT !.result = o.it],
                        val |-> IF o.done THEN Undefined ELSE o.value])

\* Mutant of cursorHasNext: the document looked at is not buffered.
hasNextConsuming(c) ==
  IF Len(c.buffer) > 0 THEN [c |-> c, val |-> TRUE]
  ELSE With(getNext(cursorFetch(c).result, FALSE),
            LAMBDA o : [c |-> [cursorFetch(c) EXCEPT !.result = o.it],
                        val |-> ~o.done])

\* Cursor.hasNext()
cursorHasNext(c) ==
  IF Len(c.buffer) > 0 THEN [c |-> c, val |-> TRUE]
  ELSE With(getNext(cursorFetch(c).result, FALSE),
            LAMBDA o : [c |-> [cursorFetch(c) EXCEPT
                                 !.result = o.it,
                                 !.buffer = IF o.done THEN @ ELSE Append(@, o.value)],
                        val |-> ~o.done])

\* Cursor.all() = fetchAll().value(): the buffer is emptied into a lazy
\* sequence composed with the result iterator, which the composition pulls.
cursorAll(c) ==
  With(value(compose(<<Lazy(c.buffer), cursorFetch(c).result>>)),
       LAMBDA v : [c |-> [cursorFetch(c) EXCEPT !.buffer = <<>>, !.result = v.iters[2]],
                   val |-> v.yieldedValues])

\* Query.remove(collection)
RECURSIVE remove1(_, _, _, _)
remove1(q, coll, i, acc) ==
  IF i > Len(coll) THEN acc
  ELSE remove1(q, coll, i + 1,
               IF ~test(q, coll[i].doc) THEN Append(acc, coll[i]) ELSE acc)

(***************************************************************************)
(* The collection facade                                                   *)
(***************************************************************************)
\* The source a cursor iterates: the collection's documents by reference.
Refs(coll) == [i \in 1..Len(coll) |-> Ref(i, coll[i])]
Docs(refs) == [i \in 1..Len(refs) |-> refs[i].doc]

\* find(data, query) = mingo.find(data, query).all(); Query.find hands the
\* cursor the projection {} when none is given.
find(coll, criteria) ==
  With(Query(criteria),
       LAMBDA q :
         IF ~q.ok THEN [err |-> TRUE, val |-> <<>>]
         ELSE [err |-> FALSE, val |-> all(Refs(coll), q, Obj(<<>>))])

\* findOne(data, query) = mingo.find(data, query).next()
findOne(coll, criteria) ==
  With(Query(criteria),
       LAMBDA q :
         IF ~q.ok THEN [err |-> TRUE, val |-> Undefined]
         ELSE With(next(Refs(coll), q, Obj(<<>>)),
                   LAMBDA o :
                     [err |-> FALSE, val |-> IF o = Undefined THEN Undefined ELSE o.doc]))

\* Mutant of exists: the truth of find's array, which is always truthy.
existsArray(coll, criteria) ==
  With(find(coll, criteria),
       LAMBDA r : [err |-> r.err, val |-> ~r.err /\ Truthy(Arr(r.val))])

\* exists(data, query) = findOne(data, query) ? true : false
exists(coll, criteria) ==
  With(findOne(coll, criteria),
       LAMBDA r : [err |-> r.err, val |-> ~r.err /\ Truthy(r.val)])

\* The outcome of a cursor whose $project stage ran processObject on the
\* yielded documents: the projected documents up to the first error thrown,
\* and the collection with each processed document as its call left it.
RECURSIVE settle(_, _, _, _)
settle(coll, ys, j, acc) ==
  IF j > Len(ys) THEN [err |-> FALSE, val |-> acc, coll |-> coll]
  ELSE With([coll EXCEPT ![ys[j].ref] = ys[j].src],
            LAMBDA coll1 :
              IF ys[j].err THEN [err |-> TRUE, val |-> <<>>, coll |-> coll1]
              ELSE settle(coll1, ys, j + 1, Append(acc, ys[j].doc)))

\* find(data, query, projection) = mingo.find(data, query, projection).all()
findProjected(coll, criteria, projection) ==
  With(Query(criteria),
       LAMBDA q :
         IF ~q.ok \/ (~isEmpty(projection) /\ validateExpression(projection, 1, FALSE, FALSE))
         THEN [err |-> TRUE, val |-> <<>>, coll |-> coll]
         ELSE With(all(Refs(coll), q, Staged(Refs(coll), projection)),
                   LAMBDA ys :
                     IF isEmpty(projection)
                     THEN [err |-> FALSE, val |-> Docs(ys), coll |-> coll]
                     ELSE settle(coll, ys, 1, <<>>)))

\* findOne(data, query, projection) = mingo.find(data, query, projection).next()
findOneProjected(coll, criteria, projection) ==
  With(Query(criteria),
       LAMBDA q :
         IF ~q.ok \/ (~isEmpty(projection) /\ validateExpression(projection, 1, FALSE, FALSE))
         THEN [err |-> TRUE, val |-> Undefined, coll |-> coll]
         ELSE With(next(Refs(coll), q, Staged(Refs(coll), projection)),
                   LAMBDA o :
                     IF o = Undefined THEN [err |-> FALSE, val |-> Undefined, coll |-> coll]
                     ELSE IF isEmpty(projection)
                     THEN [err |-> FALSE, val |-> o.doc, coll |-> coll]
                     ELSE With(settle(coll, <<o>>, 1, <<>>),
                               LAMBDA r : [err |-> r.err,
                                           val |-> IF r.err THEN Undefined ELSE r.val[1],
                                           coll |-> r.coll])))

\* Mutant of remove: the matching documents are kept, not their complement.
removeMatching(coll, criteria) ==
  With(find(coll, criteria),
       LAMBDA r : [err |-> r.err, val |-> IF r.err THEN coll ELSE Docs(r.val)])

\* remove(data, query) = mingo.remove(data, query)
remove(coll, criteria) ==
  With(Query(criteria),
       LAMBDA q :
         IF ~q.ok THEN [err |-> TRUE, val |-> coll]
         ELSE [err |-> FALSE, val |-> Docs(remove1(q, Refs(coll), 1, <<>>))])

\* update(data, query, updateCmd): the matching documents are collected
\* first, then updateObject(item, updateCmd) runs on each in turn; a thrown
\* error ends the call with the earlier documents already updated.
RECURSIVE updateEach(_, _, _, _, _)
updateEach(coll, matched, j, updateCmd, acc) ==
  IF j > Len(matched) THEN [coll |-> coll, err |-> FALSE, val |-> acc]
  ELSE LET i == matched[j].ref
       IN With(updateObject(coll[i], updateCmd, <<>>, <<>>),
               LAMBDA r :
                 With([coll EXCEPT ![i] = r.o],
                      LAMBDA coll1 :
                        IF r.err THEN [coll |-> coll1, err |-> TRUE, val |-> acc]
                        ELSE updateEach(coll1, matched, j + 1, updateCmd,
                                        Append(acc, r.res))))

\* Mutant of update: every document is updated, whatever the query.
updateAll(coll, criteria, updateCmd) ==
  updateEach(coll, Refs(coll), 1, updateCmd, <<>>)

update(coll, criteria, updateCmd) ==
  With(find(coll, criteria),
       LAMBDA f :
         IF f.err THEN [coll |-> coll, err |-> TRUE, val |-> <<>>]
         ELSE updateEach(coll, f.val, 1, updateCmd, <<>>))

(***************************************************************************)
(* Inputs                                                                  *)
(***************************************************************************)
Cond(field, expr) == [field |-> field, expr |-> expr]
Path(selector, val) == [selector |-> selector, val |-> val]
UpdateOp(op, args) == [op |-> op, args |-> args]
Gt(n) == Obj(<<Entry("$gt", Num(n))>>)

\* The collection of the README's tests, and one whose documents hold an
\* array of line items and a field c of mixed type.
ReadmeData ==
  << Obj(<<Entry("a", Num(1)), Entry("b", Num(2))>>),
     Obj(<<Entry("a", Num(2)), Entry("b", Num(2))>>),
     Obj(<<Entry("a", Num(3)), Entry("b", Num(4))>>) >>

OrdersData ==
  << Obj(<<Entry("a", Num(1)),
           Entry("items", Arr(<<Obj(<<Entry("qty", Num(7))>>),
                                Obj(<<Entry("qty", Num(3))>>),
                                Obj(<<Entry("qty", Str("s"))>>)>>)),
           Entry("c", Str("s"))>>),
     Obj(<<Entry("a", Num(2)),
           Entry("items", Arr(<<Obj(<<Entry("qty", Num(9))>>),
                                Obj(<<Entry("n", Num(1))>>)>>)),
           Entry("c", Num(5))>>),
     Obj(<<Entry("a", Str("s")),
           Entry("items", Arr(<<>>)),
           Entry("c", Num(0))>>) >>

InitialData == {ReadmeData, OrdersData}

Criteria ==
  { <<Cond(<<"b">>, Num(2))>>,
    <<Cond(<<"a">>, Num(1))>>,
    <<Cond(<<"a">>, Num(4))>>,
    <<Cond(<<"c">>, Num(5))>>,
    <<Cond(<<"a">>, Gt(1))>>,
    <<Cond(<<"items", "qty">>, Gt(5))>>,
    <<Cond(<<"a">>, Gt(1)), Cond(<<"b">>, Num(2))>>,
    <<>> }

SetC == <<UpdateOp("$set", <<Path(<<"c">>, Num(5))>>)>>
IncAC == <<UpdateOp("$inc", <<Path(<<"a">>, Num(1)), Path(<<"c">>, Num(1))>>)>>

UpdateCmds == {SetC, IncAC}

QtyFilter == <<<<Cond(<<"x", "qty">>, Gt(5))>>>>

\* The update calls on one document: the update document, the array
\* filters and the pre-condition.
Request(expr, arrayFilters, conditions) ==
  [expr |-> expr, arrayFilters |-> arrayFilters, conditions |-> conditions]

\* Update documents the dispatcher must reject: no operator, two operators,
\* an operator that is not an update operator, a key that is no operator.
NoOperator == <<>>
TwoOperators == SetC \o <<UpdateOp("$inc", <<Path(<<"a">>, Num(1))>>)>>
UnknownOperator == <<UpdateOp("$foo", <<Path(<<"c">>, Num(5))>>)>>
PlainKey == <<UpdateOp("c", <<Path(<<"c">>, Num(5))>>)>>

Requests ==
  { Request(NoOperator, <<>>, <<>>),
    Request(TwoOperators, <<>>, <<>>),
    Request(TwoOperators, <<>>, <<Cond(<<"a">>, Num(4))>>),
    Request(UnknownOperator, <<>>, <<>>),
    Request(PlainKey, <<>>, <<>>),
    Request(SetC, <<>>, <<>>),
    Request(SetC, <<>>, <<Cond(<<"a">>, Num(1))>>),
    Request(<<UpdateOp("$set", <<Path(<<"b">>, Num(2))>>)>>, <<>>, <<>>),
    Request(<<UpdateOp("$set", <<Path(<<"a", "b">>, Num(1))>>)>>, <<>>, <<>>),
    Request(<<UpdateOp("$set", <<Path(<<"d", "e">>, Num(1))>>)>>, <<>>, <<>>),
    Request(<<UpdateOp("$set", <<Path(<<"items", "0">>, Obj(<<Entry("qty", Num(7))>>))>>)>>,
            <<>>, <<>>),
    Request(<<UpdateOp("$set", <<Path(<<"items", "qty">>, Num(1))>>)>>, <<>>, <<>>),
    Request(<<UpdateOp("$set", <<Path(<<"items", "$[x]", "qty">>, Num(9))>>)>>,
            QtyFilter, <<>>),
    Request(<<UpdateOp("$inc", <<Path(<<"items", "$[x]", "qty">>, Num(1))>>)>>,
            QtyFilter, <<>>),
    Request(<<UpdateOp("$inc", <<Path(<<"items", "$[]", "qty">>, Num(1))>>)>>, <<>>, <<>>),
    Request(IncAC, <<>>, <<>>),
    Request(<<UpdateOp("$mul", <<Path(<<"c">>, Num(2))>>)>>, <<>>, <<>>),
    Request(<<UpdateOp("$mul", <<Path(<<"items", "$[x]", "qty">>, Num(2))>>)>>,
            <<<<Cond(<<"x", "qty">>, Str("s"))>>>>, <<>>),
    Request(<<UpdateOp("$bit", <<Path(<<"c">>, Obj(<<Entry("or", Num(2))>>))>>)>>,
            <<>>, <<>>),
    Request(<<UpdateOp("$pop", <<Path(<<"items">>, Num(1)), Path(<<"c">>, Num(1))>>)>>,
            <<>>, <<>>) }

(***************************************************************************)
(* State machine                                                           *)
(***************************************************************************)
NoCall == [op |-> "none", criteria |-> <<>>, expr |-> <<>>, arrayFilters |-> <<>>, doc |-> 0]

Init ==
  /\ collection \in InitialData
  /\ pre = collection
  /\ call = NoCall
  /\ result = [err |-> FALSE, val |-> <<>>]
  /\ ncalls = 0
  /\ GLOBAL_CONTEXT = LoadedOperators
  /\ lazy = NotHeld /\ cursor = NotHeld /\ hist = NotHeld /\ copts = NotHeld

\* Collection.find(criteria)
Find(criteria) ==
  /\ call' = [NoCall EXCEPT !.op = "find", !.criteria = criteria]
  /\ pre' = collection
  /\ \E r \in {find(collection, criteria)} : result' = r
  /\ UNCHANGED <<collection, ncalls, GLOBAL_CONTEXT, held>>

\* Collection.findOne(criteria)
FindOne(criteria) ==
  /\ call' = [NoCall EXCEPT !.op = "findOne", !.criteria = criteria]
  /\ pre' = collection
  /\ \E r \in {findOne(collection, criteria)} : result' = r
  /\ UNCHANGED <<collection, ncalls, GLOBAL_CONTEXT, held>>

\* Collection.exists(criteria)
Exists(criteria) ==
  /\ call' = [NoCall EXCEPT !.op = "exists", !.criteria = criteria]
  /\ pre' = collection
  /\ \E r \in {exists(collection, criteria)} : result' = r
  /\ UNCHANGED <<collection, ncalls, GLOBAL_CONTEXT, held>>

\* Collection.remove(criteria): this.collection = newData
Remove(criteria) ==
  /\ ncalls < MaxCalls
  /\ call' = [NoCall EXCEPT !.op = "remove", !.criteria = criteria]
  /\ pre' = collection
  /\ \E r \in {remove(collection, criteria)} :
       /\ collection' = r.val
       /\ result' = r
  /\ ncalls' = ncalls + 1
  /\ UNCHANGED <<GLOBAL_CONTEXT, held>>

\* Collection.update(criteria, updateCmd)
Update(criteria, updateCmd) ==
  /\ ncalls < MaxCalls
  /\ call' = [NoCall EXCEPT !.op = "update", !.criteria = criteria, !.expr = updateCmd]
  /\ pre' = collection
  /\ \E r \in {update(collection, criteria, updateCmd)} :
       /\ collection' = r.coll
       /\ result' = [err |-> r.err, val |-> r.val]
  /\ ncalls' = ncalls + 1
  /\ UNCHANGED <<GLOBAL_CONTEXT, held>>

\* updateObject(doc, expr, arrayFilters, conditions) on document i of the
\* collection.
UpdateObject(i, rq) ==
  /\ ncalls < MaxCalls
  /\ call' = [op |-> "updateObject", criteria |-> rq.conditions, expr |-> rq.expr,
              arrayFilters |-> rq.arrayFilters, doc |-> i]
  /\ pre' = collection
  /\ \E r \in {updateObject(collection[i], rq.expr, rq.arrayFilters, rq.conditions)} :
       /\ collection' = [collection EXCEPT ![i] = r.o]
       /\ result' = [err |-> r.err, val |-> r.res]
  /\ ncalls' = ncalls + 1
  /\ UNCHANGED <<GLOBAL_CONTEXT, held>>

Next ==
  \/ \E c \in Criteria : Find(c)
  \/ \E c \in Criteria : FindOne(c)
  \/ \E c \in Criteria : Exists(c)
  \/ \E c \in Criteria : Remove(c)
  \/ \E c \in Criteria, u \in UpdateCmds : Update(c, u)
  \/ \E i \in 1..Len(collection), rq \in Requests : UpdateObject(i, rq)

Spec == Init /\ [][Next]_vars

(***************************************************************************)
(* Finds with a projection                                                 *)
(***************************************************************************)
\* Documents with an _id, with arrays whose elements lack a projected field,
\* with nested arrays and with a mapping below a field.
CatalogData ==
  << Obj(<<Entry("_id", Num(1)),
           Entry("a", Num(1)),
           Entry("items", Arr(<<Obj(<<Entry("qty", Num(7)), Entry("n", Num(1))>>),
                                Obj(<<Entry("n", Num(2))>>),
                                Num(5),
                                Obj(<<Entry("qty", Num(3))>>)>>))>>),
     Obj(<<Entry("a", Num(2)),
           Entry("items", Arr(<<Arr(<<Obj(<<Entry("n", Num(1))>>),
                                      Obj(<<Entry("qty", Num(9))>>)>>),
                                Obj(<<Entry("n", Num(3))>>)>>)),
           Entry("z", Obj(<<Entry("w", Num(1))>>))>>),
     Obj(<<Entry("_id", Num(3)),
           Entry("a", Null),
           Entry("items", Arr(<<Obj(<<Entry("n", Num(1))>>)>>))>>) >>

ProjectionData == {OrdersData, CatalogData}

Projection(keys, v) == Obj([i \in 1..Len(keys) |-> Entry(keys[i], v)])

Projections ==
  { Obj(<<>>),
    Projection(<<<<"items", "qty">>>>, Num(1)),
    Projection(<<<<"items", "qty">>, <<"a">>>>, Bool(TRUE)),
    Projection(<<<<"items", "n">>>>, Num(1)),
    Projection(<<<<"items", "qty">>>>, Num(0)),
    Projection(<<<<"a">>>>, Num(0)),
    Projection(<<<<"z", "w">>>>, Num(1)),
    Projection(<<<<"_id">>>>, Num(0)),
    Obj(<<Entry(<<"_id">>, Num(0)), Entry(<<"items", "qty">>, Num(1))>>),
    Obj(<<Entry(<<"a">>, Num(1)), Entry(<<"c">>, Num(0))>>),
    Obj(<<Entry(<<"q">>, Str("$items.qty"))>>),
    Obj(<<Entry(<<"items", "qty">>, Str("$a"))>>),
    Obj(<<Entry(<<"items", "x">>, Str("$z"))>>),
    Obj(<<Entry(<<"a">>, Str("lit"))>>) }

ProjectionCriteria ==
  { <<>>, <<Cond(<<"a">>, Gt(1))>>, <<Cond(<<"a">>, Num(1))>>,
    <<Cond(<<"$foo">>, Num(1))>> }

ProjectionInit ==
  /\ collection \in ProjectionData
  /\ pre = collection
  /\ call = NoCall
  /\ result = [err |-> FALSE, val |-> <<>>]
  /\ ncalls = 0
  /\ GLOBAL_CONTEXT = LoadedOperators
  /\ lazy = NotHeld /\ cursor = NotHeld /\ hist = NotHeld /\ copts = NotHeld

\* Collection.find(criteria, projection)
FindProjected(criteria, projection) ==
  /\ call' = [NoCall EXCEPT !.op = "find", !.criteria = criteria, !.expr = projection]
  /\ pre' = collection
  /\ \E r \in {findProjected(collection, criteria, projection)} :
       /\ collection' = r.coll
       /\ result' = [err |-> r.err, val |-> r.val]
  /\ UNCHANGED <<ncalls, GLOBAL_CONTEXT, held>>

\* Collection.findOne(criteria, projection)
FindOneProjected(criteria, projection) ==
  /\ call' = [NoCall EXCEPT !.op = "findOne", !.criteria = criteria, !.expr = projection]
  /\ pre' = collection
  /\ \E r \in {findOneProjected(collection, criteria, projection)} :
       /\ collection' = r.coll
       /\ result' = [err |-> r.err, val |-> r.val]
  /\ UNCHANGED <<ncalls, GLOBAL_CONTEXT, held>>

ProjectionNext ==
  \/ \E c \in ProjectionCriteria, p \in Projections : FindProjected(c, p)
  \/ \E c \in ProjectionCriteria, p \in Projections : FindOneProjected(c, p)

ProjectionSpec == ProjectionInit /\ [][ProjectionNext]_vars

\* TRUE when the marker occurs in v at some depth.
RECURSIVE HasMissing(_)
HasMissing(v) ==
  \/ v = MISSING
  \/ isArray(v) /\ \E i \in 1..Len(v.a) : HasMissing(v.a[i])
  \/ isObject(v) /\ \E i \in 1..Len(v.o) : HasMissing(v.o[i].v)

Item(key, id) ==
  IF key = Undefined THEN Obj(<<Entry("id", Num(id))>>)
  ELSE Obj(<<Entry("k", key), Entry("id", Num(id))>>)

SortKeys == {Num(1), Num(2), Str("s"), Null, Undefined}

SortInputs ==
  UNION {{[i \in 1..n |-> Item(ks[i], i)] : ks \in [1..n -> SortKeys]} : n \in 0..3}

\* Values of every kind, two of them mappings that are equal but for the
\* order of their keys.
AB == Obj(<<Entry("a", Num(1)), Entry("b", Num(2))>>)
BA == Obj(<<Entry("b", Num(2)), Entry("a", Num(1))>>)
UniqueValues ==
  {Num(1), Num(2), Str("1"), Null, Undefined, AB, BA, Arr(<<Num(1)>>), Arr(<<BA>>)}

UniqueInputs ==
  UNION {[1..n -> UniqueValues] : n \in 0..3}

\* Arrays of up to two values, in pairs and alone.
SetValues == {Num(1), Num(2), Str("1"), Null, AB, BA}
Arrays == {Arr(a) : a \in UNION {[1..n -> SetValues] : n \in 0..2}}
IntersectionInputs == [1..2 -> Arrays] \cup [1..1 -> Arrays]

\* Pairs of documents and values: mappings that differ in the order of
\* their keys only, at the top and below an array or a mapping, and values
\* that are not equal.
DeepValues ==
  { AB, BA, Arr(<<AB>>), Arr(<<BA>>),
    Obj(<<Entry("x", AB), Entry("k", Null)>>),
    Obj(<<Entry("k", Null), Entry("x", BA)>>),
    Obj(<<Entry("k", Undefined), Entry("x", BA)>>),
    Obj(<<Entry("x", BA)>>),
    Num(1), Str("1"), NaN, Null, Undefined, Bool(TRUE),
    Arr(<<>>), Obj(<<>>), Arr(<<Num(1)>>), Obj(<<Entry("0", Num(1))>>) }
StringifyInputs == [1..2 -> DeepValues]

UtilInputs == SortInputs \cup UniqueInputs \cup IntersectionInputs \cup StringifyInputs

UtilInit ==
  /\ collection \in UtilInputs
  /\ pre = collection
  /\ call = NoCall
  /\ result = [err |-> FALSE, val |-> <<>>]
  /\ ncalls = 0
  /\ GLOBAL_CONTEXT = LoadedOperators
  /\ lazy = NotHeld /\ cursor = NotHeld /\ hist = NotHeld /\ copts = NotHeld

\* The key function of the calls: the field k of the element.
keyOf(obj, i) == getValue(obj, "k")

\* sortBy(collection, obj => obj.k) on a collection of items
SortBy ==
  /\ collection \in SortInputs
  /\ call' = [NoCall EXCEPT !.op = "sortBy"]
  /\ pre' = collection
  /\ \E r \in {sortBy(collection, [i \in 1..Len(collection) |-> keyOf(collection[i], i - 1)])} :
       result' = [err |-> FALSE, val |-> r]
  /\ UNCHANGED <<collection, ncalls, GLOBAL_CONTEXT, held>>

\* unique(collection, hashFunction)
Unique(hf) ==
  /\ call' = [NoCall EXCEPT !.op = "unique", !.expr = hf]
  /\ pre' = collection
  /\ \E r \in {unique(collection, hf)} : result' = [err |-> FALSE, val |-> r]
  /\ UNCHANGED <<collection, ncalls, GLOBAL_CONTEXT, held>>

\* intersection(collection) on an array of arrays
Intersection(hf) ==
  /\ Len(collection) > 0
  /\ \A i \in 1..Len(collection) : isArray(collection[i])
  /\ call' = [NoCall EXCEPT !.op = "intersection", !.expr = hf]
  /\ pre' = collection
  /\ \E r \in {intersection(collection, hf)} : result' = [err |-> FALSE, val |-> r]
  /\ UNCHANGED <<collection, ncalls, GLOBAL_CONTEXT, held>>

\* $in(collection[0], collection[1]) with hashFunction among the options
In(hf) ==
  /\ Len(collection) = 2
  /\ isArray(collection[2])
  /\ call' = [NoCall EXCEPT !.op = "$in", !.expr = hf]
  /\ pre' = collection
  /\ \E r \in {in1(collection[1], collection[2], hf)} : result' = [err |-> FALSE, val |-> r]
  /\ UNCHANGED <<collection, ncalls, GLOBAL_CONTEXT, held>>

\* stringify(a) and stringify(b) for two values of the collection
Stringify(i, j) ==
  /\ call' = [NoCall EXCEPT !.op = "stringify", !.doc = <<i, j>>]
  /\ pre' = collection
  /\ \E a \in {stringify(collection[i])}, b \in {stringify(collection[j])} :
       result' = [err |-> a.err \/ b.err, val |-> <<a.s, b.s>>]
  /\ UNCHANGED <<collection, ncalls, GLOBAL_CONTEXT, held>>

UtilNext ==
  \/ SortBy
  \/ \E i, j \in 1..Len(collection) : Stringify(i, j)
  \/ \E hf \in HashFunctions : Intersection(hf)
  \/ \E hf \in HashFunctions : Unique(hf)
  \/ \E hf \in HashFunctions : In(hf)

UtilSpec == UtilInit /\ [][UtilNext]_vars

\* The positions of the input whose key is nil / is not nil, in input order.
NilKeyed(xs) == SelectSeq(xs, LAMBDA x : isNil(keyOf(x, 0)))
Keyed(xs) == SelectSeq(xs, LAMBDA x : ~isNil(keyOf(x, 0)))
\* xs is ascending by key, elements of equal key in input order.
StablyOrdered(xs) ==
  \A i, j \in 1..Len(xs) :
    i < j => \/ compare1(keyOf(xs[i], 0), keyOf(xs[j], 0)) < 0
             \/ /\ compare1(keyOf(xs[i], 0), keyOf(xs[j], 0)) = 0
                /\ Get(xs[i], "id").n < Get(xs[j], "id").n
SameElements(xs, ys) ==
  Len(xs) = Len(ys) /\ {xs[i] : i \in 1..Len(xs)} = {ys[i] : i \in 1..Len(ys)}

\* C15 as stated: sortBy is stable, and the elements whose key is null or
\* undefined follow the sorted portion in input order.
SortByNilLast ==
  call.op = "sortBy" =>
    LET n == Len(Keyed(pre))
    IN /\ SameElements(result.val, pre)
       /\ StablyOrdered(SubSeq(result.val, 1, n))
       /\ SubSeq(result.val, n + 1, Len(pre)) = NilKeyed(pre)

\* C15, amended: sortBy is stable, and the elements whose key is null or
\* undefined come before the sorted portion, in input order.
SortByNilFirst ==
  call.op = "sortBy" =>
    LET n == Len(NilKeyed(pre))
    IN /\ SameElements(result.val, pre)
       /\ SubSeq(result.val, 1, n) = NilKeyed(pre)
       /\ StablyOrdered(SubSeq(result.val, n + 1, Len(pre)))

\* A sort of three elements: two of equal key around one without a key.
SortByNilFirstWitness ==
  /\ call.op = "sortBy"
  /\ pre = <<Item(Num(2), 1), Item(Undefined, 2), Item(Num(2), 3)>>
  /\ result.val = <<Item(Undefined, 2), Item(Num(2), 1), Item(Num(2), 3)>>

\* The elements of xs that no earlier element of xs is isEqual to.
FirstOccurrences(xs) ==
  LET first == {i \in 1..Len(xs) : \A j \in 1..(i - 1) : ~isEqual(xs[j], xs[i])}
      marked == [i \in 1..Len(xs) |-> [at |-> i, v |-> xs[i]]]
      chosen == SelectSeq(marked, LAMBDA e : e.at \in first)
  IN [i \in 1..Len(chosen) |-> chosen[i].v]

\* C16: unique keeps exactly the first occurrence of each isEqual class, in
\* the order of first occurrence, and unique of its result is that result.
UniqueFirstOccurrences ==
  call.op = "unique" =>
    /\ result.val = FirstOccurrences(pre)
    /\ unique(result.val, call.expr) = result.val

\* A call on two equal mappings of different key order around a number,
\* with colliding hashes: the first mapping and the number are kept.
UniqueFirstOccurrencesWitness ==
  /\ call.op = "unique"
  /\ call.expr = "colliding"
  /\ pre = <<BA, Num(1), AB>>
  /\ result.val = <<BA, Num(1)>>

\* v occurs in the sequence xs, up to isEqual.
Occurs(v, xs) == \E i \in 1..Len(xs) : isEqual(v, xs[i])
\* xs and ys hold the same values, up to isEqual.
SameValues(xs, ys) ==
  /\ \A i \in 1..Len(xs) : Occurs(xs[i], ys)
  /\ \A i \in 1..Len(ys) : Occurs(ys[i], xs)

\* C17: the intersections of two arrays taken in either order hold the same
\* values, which are exactly the values that occur in both arrays.
IntersectionCommutes ==
  (call.op = "intersection" /\ call.expr = DEFAULT_HASH_FUNCTION /\ Len(pre) = 2) =>
    /\ \A i \in 1..Len(result.val) :
         Occurs(result.val[i], pre[1].a) /\ Occurs(result.val[i], pre[2].a)
    /\ \A i \in 1..Len(pre[1].a) :
         Occurs(pre[1].a[i], pre[2].a) => Occurs(pre[1].a[i], result.val)
    /\ SameValues(result.val, intersection(<<pre[2], pre[1]>>, call.expr))

\* Two arrays of two values with one mapping in common, of different key
\* order in the two arrays.
IntersectionCommutesWitness ==
  /\ call.op = "intersection"
  /\ call.expr = DEFAULT_HASH_FUNCTION
  /\ pre = <<Arr(<<AB, Num(1)>>), Arr(<<Num(2), BA>>)>>
  /\ result.val = <<AB>>

\* C18: documents that are isEqual have the same stringify text, whatever
\* the insertion order of their keys.
EqualDocumentsSameText ==
  (call.op = "stringify" /\ isEqual(pre[call.doc[1]], pre[call.doc[2]]))
    => (~result.err /\ result.val[1] = result.val[2])

\* Two mappings with the same fields below the key x, written in different
\* order at both levels: one text.
EqualDocumentsSameTextWitness ==
  /\ call.op = "stringify"
  /\ pre[call.doc[1]] = Obj(<<Entry("x", AB), Entry("k", Null)>>)
  /\ pre[call.doc[2]] = Obj(<<Entry("k", Null), Entry("x", BA)>>)
  /\ result.val = <<"{k:null,x:{a:1,b:2}}", "{k:null,x:{a:1,b:2}}">>

(***************************************************************************)
(* Calls on object graphs                                                  *)
(***************************************************************************)
\* The collection is a graph of up to MaxNodes arrays and mappings; their
\* elements are numbers and references to the objects of the graph, so an
\* object can be referenced twice and can reach itself.  The document is
\* the object at address 1.
MaxNodes == 2
Root == Ptr(1)

Children(n) == {Num(1)} \cup {Ptr(k) : k \in 1..n}
Nodes(n) ==
  {Arr(a) : a \in UNION {[1..len -> Children(n)] : len \in 0..2}}
    \cup {Obj(<<Entry("a", c)>>) : c \in Children(n)}
    \cup {Obj(<<Entry("b", c), Entry("a", d)>>) : c \in {Num(1)}, d \in Children(n)}
Graphs == UNION {[1..n -> Nodes(n)] : n \in 1..MaxNodes}

GraphInit ==
  /\ collection \in Graphs
  /\ pre = collection
  /\ call = NoCall
  /\ result = [err |-> FALSE, val |-> <<>>]
  /\ ncalls = 0
  /\ GLOBAL_CONTEXT = LoadedOperators
  /\ lazy = NotHeld /\ cursor = NotHeld /\ hist = NotHeld /\ copts = NotHeld

\* cloneDeep(document)
CloneDeep ==
  /\ call' = [NoCall EXCEPT !.op = "cloneDeep"]
  /\ pre' = collection
  /\ \E r \in {cloneDeep(collection, Root)} : result' = [err |-> r.err, val |-> r.v]
  /\ UNCHANGED <<collection, ncalls, GLOBAL_CONTEXT, held>>

\* stringify(document)
StringifyDocument ==
  /\ call' = [NoCall EXCEPT !.op = "stringify"]
  /\ pre' = collection
  /\ \E r \in {str(collection, Root, {})} : result' = [err |-> r.err, val |-> r.s]
  /\ UNCHANGED <<collection, ncalls, GLOBAL_CONTEXT, held>>

GraphNext ==
  \/ CloneDeep
  \/ StringifyDocument

GraphSpec == GraphInit /\ [][GraphNext]_vars

\* The references held by the object at address i, and the addresses
\* reachable from i in one or more steps.
Refers(heap, i) ==
  IF isArray(heap[i]) THEN {heap[i].a[n].to : n \in {m \in 1..Len(heap[i].a) : isPtr(heap[i].a[m])}}
  ELSE {heap[i].o[n].v.to : n \in {m \in 1..Len(heap[i].o) : isPtr(heap[i].o[m].v)}}
RECURSIVE ReachIn(_, _, _)
ReachIn(heap, from, steps) ==
  IF steps = 0 THEN from
  ELSE ReachIn(heap, from \cup UNION {Refers(heap, j) : j \in from}, steps - 1)
Reach(heap, i) == ReachIn(heap, Refers(heap, i), Len(heap))
\* The document reaches an object that reaches itself.
Cyclic(heap) == \E i \in {1} \cup Reach(heap, 1) : i \in Reach(heap, i)

\* C19: cloneDeep and stringify end on every document: with the cycle
\* error when the document is cyclic, without error when it is not, also
\* when an object is referenced more than once; the text of the copy is
\* then the text of the document.
CycleErrorIffCyclic ==
  /\ call.op \in {"cloneDeep", "stringify"} => (result.err <=> Cyclic(pre))
  /\ (call.op = "cloneDeep" /\ ~Cyclic(pre))
       => stringify(result.val) = str(pre, Root, {})

\* A copy of a document that holds the same mapping twice.
CycleErrorIffCyclicWitness ==
  /\ call.op = "cloneDeep"
  /\ pre = <<Arr(<<Ptr(2), Ptr(2)>>), Obj(<<Entry("a", Num(1))>>)>>
  /\ ~result.err
  /\ result.val = Arr(<<Obj(<<Entry("a", Num(1))>>), Obj(<<Entry("a", Num(1))>>)>>)

(***************************************************************************)
(* Updates with $push                                                      *)
(***************************************************************************)
K(n) == Obj(<<Entry("k", Num(n))>>)

\* Documents whose field a is an array of elements with a key k (one with
\* two elements of equal k, told apart by a field id), is missing, or is a
\* number.
ScoresData ==
  << Obj(<<Entry("a", Arr(<<K(3), K(1)>>))>>),
     Obj(<<Entry("a", Arr(<<Item(Num(2), 1), Item(Num(2), 2), Item(Num(1), 3)>>))>>),
     Obj(<<Entry("b", Num(1))>>),
     Obj(<<Entry("a", Num(5))>>) >>

\* The values pushed: an element alone, or the modifiers $each with each of
\* $sort, $slice and $position present or absent.
Modifier(name, vals) == {<<>>} \cup {<<Entry(name, v)>> : v \in vals}
Pushed ==
  {K(2)} \cup
  {Obj(<<Entry("$each", Arr(e))>> \o so \o sl \o po) :
     e \in {<<K(2)>>, <<K(2), K(0)>>, <<>>},
     so \in Modifier("$sort", {Obj(<<Entry("k", Num(1))>>), Obj(<<Entry("k", Num(-1))>>), Num(1)}),
     sl \in Modifier("$slice", {Num(-2), Num(-1), Num(-5), Num(0), Num(1)}),
     po \in Modifier("$position", {Num(0)})}

PushRequests ==
  {Request(<<UpdateOp("$push", <<Path(<<"a">>, v)>>)>>, <<>>, <<>>) : v \in Pushed}

PushInit ==
  /\ collection = ScoresData
  /\ pre = collection
  /\ call = NoCall
  /\ result = [err |-> FALSE, val |-> <<>>]
  /\ ncalls = 0
  /\ GLOBAL_CONTEXT = LoadedOperators
  /\ lazy = NotHeld /\ cursor = NotHeld /\ hist = NotHeld /\ copts = NotHeld

PushNext ==
  \E i \in 1..Len(collection), rq \in PushRequests : UpdateObject(i, rq)

PushSpec == PushInit /\ [][PushNext]_vars

\* The arguments of a call that pushes with $each, an ascending $sort by k
\* and a negative $slice onto an array.
IsSortedSlicedPush ==
  /\ call.op = "updateObject"
  /\ Len(call.expr) = 1 /\ call.expr[1].op = "$push"
  /\ has(call.expr[1].args[1].val, "$each")
  /\ ~has(call.expr[1].args[1].val, "$position")
  /\ Get(call.expr[1].args[1].val, "$sort") = Obj(<<Entry("k", Num(1))>>)
  /\ isNumber(Get(call.expr[1].args[1].val, "$slice"))
  /\ Get(call.expr[1].args[1].val, "$slice").n < 0
  /\ isArray(Get(pre[call.doc], "a"))

\* xs in ascending order of k, elements of equal k in the order of xs.
Orderings(n) == {f \in [1..n -> 1..n] : \A i, j \in 1..n : f[i] = f[j] => i = j}
AscendingByK(xs) ==
  LET f == CHOOSE g \in Orderings(Len(xs)) :
             \A i, j \in 1..Len(xs) :
               i < j => \/ Get(xs[g[i]], "k").n < Get(xs[g[j]], "k").n
                        \/ Get(xs[g[i]], "k").n = Get(xs[g[j]], "k").n /\ g[i] < g[j]
  IN [i \in 1..Len(xs) |-> xs[f[i]]]
Last(xs, n) == SubSeq(xs, IF Len(xs) > n THEN Len(xs) - n + 1 ELSE 1, Len(xs))

\* C20: $push with $each, $sort: {k: 1} and $slice: -n appends the elements
\* of $each, sorts the array ascending by k and keeps its last n elements.
PushSortsThenSlices ==
  IsSortedSlicedPush =>
    /\ ~result.err
    /\ Get(collection[call.doc], "a")
         = Arr(Last(AscendingByK(Get(pre[call.doc], "a").a
                                   \o Get(call.expr[1].args[1].val, "$each").a),
                    0 - Get(call.expr[1].args[1].val, "$slice").n))

\* On a: [{k: 3}, {k: 1}], pushing {k: 2} with $slice: -2 leaves
\* a = [{k: 2}, {k: 3}].
PushSortsThenSlicesWitness ==
  /\ IsSortedSlicedPush
  /\ Get(pre[call.doc], "a") = Arr(<<K(3), K(1)>>)
  /\ Get(call.expr[1].args[1].val, "$each") = Arr(<<K(2)>>)
  /\ Get(call.expr[1].args[1].val, "$slice") = Num(-2)
  /\ Get(collection[call.doc], "a") = Arr(<<K(2), K(3)>>)
  /\ result = [err |-> FALSE, val |-> <<<<"a">>>>]

(***************************************************************************)
(* Registration of operators                                               *)
(***************************************************************************)
RegisteredTypes == {"query", "window", "bogus"}
RegisteredNames == {"$eq", "$custom", "custom"}
RegisteredValues == {Fn("f1"), Fn("f2"), Str("s")}

\* The operator maps of the calls: one entry, or two with different names.
OperatorMaps ==
  {<<Entry(n, f)>> : n \in RegisteredNames, f \in RegisteredValues}
    \cup {<<Entry(n[1], f[1]), Entry(n[2], f[2])>> :
            n \in {m \in RegisteredNames \X RegisteredNames : m[1] # m[2]},
            f \in RegisteredValues \X RegisteredValues}

\* useOperators(type, operators)
UseOperators(type, operators) ==
  /\ call' = [op |-> "useOperators", type |-> type, operators |-> operators]
  /\ \E r \in {useOperators(GLOBAL_CONTEXT, type, operators)} :
       /\ GLOBAL_CONTEXT' = r.ops
       /\ result' = [err |-> r.err, val |-> <<>>]
  /\ UNCHANGED <<collection, pre, ncalls, held>>

RegistryNext == \E type \in RegisteredTypes, operators \in OperatorMaps : UseOperators(type, operators)

RegistrySpec == Init /\ [][RegistryNext]_vars

(***************************************************************************)
(* Queries with logical operators                                          *)
(***************************************************************************)
And(A, B) == <<Cond(<<"$and">>, Arr(<<A, B>>))>>
Or(A, B) == <<Cond(<<"$or">>, Arr(<<A, B>>))>>
Nor(A, B) == <<Cond(<<"$nor">>, Arr(<<A, B>>))>>

\* The conditions the branches of a logical operator are drawn from.
Branches ==
  { <<Cond(<<"a">>, Num(1))>>,
    <<Cond(<<"b">>, Num(2))>>,
    <<Cond(<<"a">>, Gt(1))>>,
    <<Cond(<<"items", "qty">>, Gt(5))>>,
    <<>>,
    Nor(<<Cond(<<"a">>, Num(1))>>, <<Cond(<<"c">>, Num(5))>>) }

LogicalCriteria ==
  {And(A, B) : A \in Branches, B \in Branches}
    \cup {Or(A, B) : A \in Branches, B \in Branches}
    \cup {Nor(A, B) : A \in Branches, B \in Branches}

QueryNext ==
  \/ \E c \in LogicalCriteria : Find(c)
  \/ \E c \in LogicalCriteria : FindOne(c)
  \/ \E c \in LogicalCriteria : Exists(c)

QuerySpec == Init /\ [][QueryNext]_vars

(***************************************************************************)
(* Queries with $all and $elemMatch                                        *)
(***************************************************************************)
Lt(n) == Obj(<<Entry("$lt", Num(n))>>)
ElemMatch(b) == Obj(<<Entry("$elemMatch", b)>>)
All(field, queries) == <<Cond(field, Obj(<<Entry("$all", Arr(queries))>>))>>

\* A collection whose field v holds arrays of numbers, an empty array and a
\* number.
ReadingsData ==
  << Obj(<<Entry("v", Arr(<<Num(1), Num(8)>>))>>),
     Obj(<<Entry("v", Arr(<<Num(8)>>))>>),
     Obj(<<Entry("v", Arr(<<>>))>>),
     Obj(<<Entry("v", Num(3))>>),
     Obj(<<Entry("v", Arr(<<Num(3), Num(1)>>))>>) >>

\* Subqueries on a field of the element, and subqueries made of operators.
SubQueries ==
  { Obj(<<Entry("qty", Gt(5))>>),
    Obj(<<Entry("qty", Lt(5))>>),
    Obj(<<Entry("n", Num(1))>>),
    Gt(5),
    Lt(5),
    Obj(<<Entry("$gt", Num(0)), Entry("$lt", Num(3))>>) }

QueryLists ==
  {<<>>} \cup {<<ElemMatch(b)>> : b \in SubQueries}
         \cup {<<ElemMatch(b), ElemMatch(c)>> : b \in SubQueries, c \in SubQueries}

AllCriteria == {All(f, qs) : f \in {<<"items">>, <<"v">>}, qs \in QueryLists}

AllInit ==
  /\ collection \in {OrdersData, ReadingsData}
  /\ pre = collection
  /\ call = NoCall
  /\ result = [err |-> FALSE, val |-> <<>>]
  /\ ncalls = 0
  /\ GLOBAL_CONTEXT = LoadedOperators
  /\ lazy = NotHeld /\ cursor = NotHeld /\ hist = NotHeld /\ copts = NotHeld

AllNext ==
  \/ \E c \in AllCriteria : Find(c)
  \/ \E c \in AllCriteria : FindOne(c)
  \/ \E c \in AllCriteria : Exists(c)

AllSpec == AllInit /\ [][AllNext]_vars

(***************************************************************************)
(* A lazy sequence: stages are chained, then the sequence is pulled        *)
(***************************************************************************)
MaxStages == 2

LazySources ==
  { <<>>,
    <<Num(1), Num(2), Num(3)>>,
    <<Num(2), Num(1), Num(4), Num(3)>>,
    <<Num(4), Num(2)>> }

Maps == {"addOne", "double"}
Predicates == {"isOdd", "isSmall"}
Counts == 0..2

LazyInit ==
  /\ collection \in LazySources
  /\ pre = collection
  /\ call = NoCall
  /\ result = [err |-> FALSE, val |-> <<>>]
  /\ ncalls = 0
  /\ GLOBAL_CONTEXT = LoadedOperators
  /\ lazy = Lazy(collection)
  /\ cursor = NotHeld
  /\ copts = NotHeld
  /\ hist = [kind |-> "lazy", stages |-> <<>>, started |-> FALSE, out |-> <<>>,
             values |-> 0, cached |-> <<>>]

\* One more stage is chained before the sequence is pulled.
Chain(stage, it) ==
  /\ ~hist.started
  /\ Len(hist.stages) < MaxStages
  /\ lazy' = it
  /\ hist' = [hist EXCEPT !.stages = Append(@, stage)]
  /\ call' = [NoCall EXCEPT !.op = stage.action]
  /\ UNCHANGED <<collection, pre, result, ncalls, GLOBAL_CONTEXT, cursor, copts>>

\* lazy.map(f)
Map(f) == Chain([action |-> "MAP", func |-> f], map(lazy, [kind |-> f]))

\* lazy.filter(pred)
Filter(p) == Chain([action |-> "FILTER", func |-> p], filter(lazy, [kind |-> p]))

\* lazy.take(n)
Take(n) == Chain([action |-> "TAKE", count |-> n], take(lazy, n))

\* lazy.drop(n)
Drop(n) == Chain([action |-> "DROP", count |-> n], drop(lazy, n))

\* lazy.next()
LazyNext ==
  /\ \E r \in {getNext(lazy, FALSE)} :
       /\ lazy' = r.it
       /\ result' = [err |-> FALSE, val |-> r.value, done |-> r.done]
       /\ hist' = [hist EXCEPT !.started = TRUE,
                                !.out = IF r.done THEN @ ELSE Append(@, r.value)]
  /\ call' = [NoCall EXCEPT !.op = "next"]
  /\ UNCHANGED <<collection, pre, ncalls, GLOBAL_CONTEXT, cursor, copts>>

\* lazy.value()
Value ==
  /\ hist.values < 2
  /\ \E it \in {value(lazy)} :
       /\ lazy' = it
       /\ result' = [err |-> FALSE, val |-> it.yieldedValues, done |-> it.isDone]
       /\ hist' = [hist EXCEPT !.started = TRUE, !.values = @ + 1,
                                !.cached = IF hist.values = 0 THEN it.yieldedValues ELSE @]
  /\ call' = [NoCall EXCEPT !.op = "value"]
  /\ UNCHANGED <<collection, pre, ncalls, GLOBAL_CONTEXT, cursor, copts>>

LazyStep ==
  \/ \E f \in Maps : Map(f)
  \/ \E p \in Predicates : Filter(p)
  \/ \E n \in Counts : Take(n)
  \/ \E n \in Counts : Drop(n)
  \/ LazyNext
  \/ Value

LazySpec == LazyInit /\ [][LazyStep]_vars

(***************************************************************************)
(* A cursor a caller iterates with hasNext(), next() and all()             *)
(***************************************************************************)
CursorInit ==
  /\ collection \in InitialData
  /\ pre = collection
  /\ call = NoCall
  /\ result = [err |-> FALSE, val |-> <<>>]
  /\ ncalls = 0
  /\ GLOBAL_CONTEXT = LoadedOperators
  /\ lazy = NotHeld
  /\ copts = NotHeld
  /\ \E criteria \in Criteria :
       /\ cursor = Cursor(Refs(collection), Query(criteria), Obj(<<>>))
       /\ hist = [kind |-> "cursor", criteria |-> criteria, out |-> <<>>,
                  alled |-> FALSE, flushed |-> 0, rest |-> <<>>]

\* cursor.hasNext()
CursorHasNext ==
  /\ \E r \in {cursorHasNext(cursor)} :
       /\ cursor' = r.c
       /\ result' = [err |-> FALSE, val |-> r.val]
  /\ call' = [NoCall EXCEPT !.op = "hasNext"]
  /\ UNCHANGED <<collection, pre, ncalls, GLOBAL_CONTEXT, lazy, hist, copts>>

\* cursor.next()
CursorNext ==
  /\ \E r \in {cursorNext(cursor)} :
       /\ cursor' = r.c
       /\ result' = [err |-> FALSE, val |-> r.val]
       /\ hist' = [hist EXCEPT !.out = IF r.val = Undefined THEN @ ELSE Append(@, r.val)]
  /\ call' = [NoCall EXCEPT !.op = "next"]
  /\ UNCHANGED <<collection, pre, ncalls, GLOBAL_CONTEXT, lazy, copts>>

\* cursor.all()
CursorAll ==
  /\ \E r \in {cursorAll(cursor)} :
       /\ cursor' = r.c
       /\ result' = [err |-> FALSE, val |-> r.val]
       /\ hist' = [hist EXCEPT !.alled = TRUE,
                                !.flushed = IF hist.alled THEN @ ELSE Len(cursor.buffer),
                                !.rest = @ \o r.val]
  /\ call' = [NoCall EXCEPT !.op = "all"]
  /\ UNCHANGED <<collection, pre, ncalls, GLOBAL_CONTEXT, lazy, copts>>

CursorStep ==
  \/ CursorHasNext
  \/ CursorNext
  \/ CursorAll

CursorSpec == CursorInit /\ [][CursorStep]_vars

(***************************************************************************)
(* Updates that may leave the document as it is                            *)
(***************************************************************************)
Op1(op, selector, val) == Request(<<UpdateOp(op, <<Path(selector, val)>>)>>, <<>>, <<>>)

OperatorRequests ==
  { Op1("$set", <<"a">>, Num(1)),
    Op1("$set", <<"c">>, Num(5)),
    Op1("$set", <<"a", "b">>, Num(1)),
    Op1("$inc", <<"a">>, Num(0)),
    Op1("$mul", <<"c">>, Num(1)),
    Op1("$mul", <<"d">>, Num(2)),
    Op1("$bit", <<"c">>, Obj(<<Entry("or", Num(0))>>)),
    Op1("$bit", <<"c">>, Obj(<<Entry("or", Num(2))>>)),
    Op1("$bit", <<"d">>, Obj(<<Entry("and", Num(5))>>)),
    Op1("$bit", <<"d", "e">>, Obj(<<Entry("xor", Num(0))>>)),
    Op1("$pop", <<"items">>, Num(1)),
    Op1("$push", <<"items">>, Num(1)),
    Op1("$addToSet", <<"items">>, Obj(<<Entry("qty", Num(7))>>)),
    Op1("$addToSet", <<"items">>, Obj(<<Entry("$each", Arr(<<Obj(<<Entry("qty", Num(9))>>),
                                                             Obj(<<Entry("n", Num(1))>>)>>))>>)),
    Op1("$addToSet", <<"tags">>, Str("s")),
    Op1("$addToSet", <<"tags">>, Obj(<<Entry("$each", Arr(<<>>))>>)),
    Op1("$addToSet", <<"d", "tags">>, Obj(<<Entry("$each", Arr(<<>>))>>)),
    Request(SetC, <<>>, <<Cond(<<"a">>, Num(4))>>),
    Request(<<UpdateOp("$inc", <<Path(<<"items", "$[x]", "qty">>, Num(1))>>)>>,
            <<<<Cond(<<"x", "qty">>, Gt(9))>>>>, <<>>) }

OperatorNext ==
  \E i \in 1..Len(collection), rq \in OperatorRequests : UpdateObject(i, rq)

OperatorSpec == Init /\ [][OperatorNext]_vars

(***************************************************************************)
(* Evaluation contexts derived for nested evaluations                      *)
(***************************************************************************)
PlainOptions == Obj(<<Entry("idKey", Str("_id"))>>)

Roots == {Undefined, Obj(<<Entry("a", Num(1))>>), Obj(<<Entry("a", Num(2))>>)}

Variables(o) == Obj(<<Entry("variables", Obj(o))>>)

Locals ==
  { Undefined,
    Obj(<<>>),
    Variables(<<Entry("x", Num(1))>>),
    Variables(<<Entry("y", Num(3))>>),
    Variables(<<Entry("x", Num(2)), Entry("y", Num(2))>>),
    Obj(<<Entry("groupId", Num(7))>>) }

ContextInit ==
  /\ collection = <<>>
  /\ pre = collection
  /\ call = NoCall
  /\ result = [err |-> FALSE, val |-> <<>>]
  /\ ncalls = 0
  /\ GLOBAL_CONTEXT = LoadedOperators
  /\ lazy = NotHeld
  /\ cursor = NotHeld
  /\ \E root \in Roots, local \in Locals :
       /\ copts = [kind |-> "copts",
                   options |-> coptsInit(PlainOptions, root, local),
                   derived |-> Undefined]
       /\ hist = [kind |-> "copts", options |-> copts.options,
                  root |-> root, local |-> local]

\* copts = ComputeOptions.init(options, root, local) on the context a
\* nested evaluation was handed.
Derive(root, local) ==
  /\ copts' = [copts EXCEPT !.derived = coptsInit(copts.options, root, local)]
  /\ hist' = [kind |-> "copts", options |-> copts.options,
              root |-> root, local |-> local]
  /\ call' = [NoCall EXCEPT !.op = "init"]
  /\ UNCHANGED <<collection, pre, result, ncalls, GLOBAL_CONTEXT, lazy, cursor>>

\* copts.update(root, local) on the derived context.
Rebind(root, local) ==
  /\ copts.derived.t = "ComputeOptions"
  /\ copts' = [copts EXCEPT !.derived = coptsUpdate(@, root, local)]
  /\ hist' = [kind |-> "copts", options |-> copts.options,
              root |-> root, local |-> local]
  /\ call' = [NoCall EXCEPT !.op = "update"]
  /\ UNCHANGED <<collection, pre, result, ncalls, GLOBAL_CONTEXT, lazy, cursor>>

\* The derived context is handed to the next nested evaluation as its
\* options.
Descend ==
  /\ copts.derived.t = "ComputeOptions"
  /\ copts' = [copts EXCEPT !.options = copts.derived, !.derived = Undefined]
  /\ hist' = [kind |-> "copts", options |-> copts.derived,
              root |-> Undefined, local |-> Undefined]
  /\ call' = [NoCall EXCEPT !.op = "computeValue"]
  /\ UNCHANGED <<collection, pre, result, ncalls, GLOBAL_CONTEXT, lazy, cursor>>

ContextNext ==
  \/ \E root \in Roots, local \in Locals : Derive(root, local)
  \/ \E root \in Roots, local \in Locals : Rebind(root, local)
  \/ Descend

ContextSpec == ContextInit /\ [][ContextNext]_vars

(***************************************************************************)
(* Queries with $where                                                     *)
(***************************************************************************)
\* The functions callers hand to $where, and a value that is no function.
WhereExprs == {Fn("aIsOne"), Fn("b"), Fn("never"), Num(1)}

FieldConds == {Cond(<<"a">>, Num(1)), Cond(<<"b">>, Num(2)), Cond(<<"a">>, Gt(1))}

\* The conditions of the other top-level keys, in the order of the document.
OtherConds ==
  {<<>>} \cup {<<c>> : c \in FieldConds}
         \cup {<<c, d>> : c \in FieldConds, d \in FieldConds}

\* The condition document others with the $where key at position at.
WithWhere(others, at, f) ==
  SubSeq(others, 1, at - 1) \o <<Cond(<<"$where">>, f)>>
    \o SubSeq(others, at, Len(others))

WhereCriteria ==
  UNION {{WithWhere(others, at, f) : at \in 1..(Len(others) + 1), f \in WhereExprs} :
           others \in OtherConds}

\* new Query(criteria).test(collection[i])
Test(criteria, i) ==
  /\ i \in 1..Len(collection)
  /\ call' = [NoCall EXCEPT !.op = "test", !.criteria = criteria, !.doc = i]
  /\ pre' = collection
  /\ \E q \in {Query(criteria)} :
       IF ~q.ok
       THEN /\ result' = [err |-> TRUE, val |-> <<>>]
            /\ hist' = [kind |-> "test", compiled |-> <<>>, called |-> <<>>]
       ELSE \E r \in {testLoop(q, collection[i], 1, <<>>)} :
              /\ result' = [err |-> FALSE, val |-> Bool(r.val)]
              /\ hist' = [kind |-> "test", compiled |-> q.compiled,
                          called |-> r.called]
  /\ UNCHANGED <<collection, ncalls, GLOBAL_CONTEXT, lazy, cursor, copts>>

WhereNext == \E c \in WhereCriteria, i \in 1..3 : Test(c, i)

WhereSpec == Init /\ [][WhereNext]_vars

(***************************************************************************)
(* Properties                                                              *)
(***************************************************************************)
\* The positions of the documents of coll that pass the criteria's test.
Matching(coll, criteria) ==
  {i \in 1..Len(coll) : test(Query(criteria), coll[i])}

\* The documents at the positions of S, in collection order.
RECURSIVE Pick(_, _, _)
Pick(coll, S, i) ==
  IF i > Len(coll) THEN <<>>
  ELSE (IF i \in S THEN <<coll[i]>> ELSE <<>>) \o Pick(coll, S, i + 1)

\* C1: find returns exactly the documents for which the criteria's test is
\* true, each once and in collection order (none when nothing matches).
FindReturnsMatches ==
  call.op = "find" =>
    LET M == Matching(pre, call.criteria)
        refs == result.val
    IN /\ ~result.err
       /\ Len(refs) = Cardinality(M)
       /\ \A j \in 1..Len(refs) : refs[j].ref \in M /\ refs[j].doc = pre[refs[j].ref]
       /\ \A j \in 1..Len(refs), k \in 1..Len(refs) : j < k => refs[j].ref < refs[k].ref
       /\ Docs(refs) = Pick(pre, M, 1)

FindReturnsMatchesWitness ==
  /\ call.op = "find"
  /\ call.criteria = <<Cond(<<"b">>, Num(2))>>
  /\ pre = ReadmeData
  /\ Docs(result.val) = <<ReadmeData[1], ReadmeData[2]>>

\* C2: after update(query, {$set: {c: v}}) every document that matched the
\* query before the call has c = v and every other document is unchanged.
UpdateSetsMatching ==
  (call.op = "update" /\ call.expr = SetC) =>
    LET M == Matching(pre, call.criteria)
        v == call.expr[1].args[1].val
    IN /\ ~result.err
       /\ Len(collection) = Len(pre)
       /\ \A i \in 1..Len(pre) :
            IF i \in M THEN Get(collection[i], "c") = v
            ELSE collection[i] = pre[i]

UpdateSetsMatchingWitness ==
  /\ call.op = "update" /\ call.expr = SetC
  /\ \E i \in 1..Len(pre), j \in 1..Len(pre) :
       /\ i \in Matching(pre, call.criteria)
       /\ j \notin Matching(pre, call.criteria)
       /\ Get(pre[i], "c") # Num(5)
       /\ Get(pre[j], "c") # Num(5)
       /\ Get(collection[i], "c") = Num(5)

\* C3: after remove(query) the collection holds exactly the documents that
\* did not match, in their original order; its length is their number, and
\* a find or exists with the same query on it finds nothing.
RemoveKeepsComplement ==
  call.op = "remove" =>
    LET M == Matching(pre, call.criteria)
    IN /\ collection = Pick(pre, (1..Len(pre)) \ M, 1)
       /\ Len(collection) = Len(pre) - Cardinality(M)
       /\ result.val = collection
       /\ find(collection, call.criteria).val = <<>>
       /\ exists(collection, call.criteria).val = FALSE

RemoveKeepsComplementWitness ==
  /\ call.op = "remove"
  /\ call.criteria = <<Cond(<<"a">>, Num(1))>>
  /\ pre = ReadmeData
  /\ collection = <<ReadmeData[2], ReadmeData[3]>>

\* C4: findOne returns the first matching document in collection order, and
\* undefined when no document matches.
FindOneReturnsFirst ==
  call.op = "findOne" =>
    LET M == Matching(pre, call.criteria)
    IN /\ ~result.err
       /\ IF M = {} THEN result.val = Undefined
          ELSE result.val = pre[CHOOSE i \in M : \A j \in M : i <= j]

FindOneReturnsFirstWitness ==
  /\ call.op = "findOne"
  /\ Cardinality(Matching(pre, call.criteria)) >= 2
  /\ 1 \notin Matching(pre, call.criteria)
  /\ result.val = pre[2]

\* C5: exists returns true if and only if at least one document matches.
ExistsIffMatch ==
  call.op = "exists" =>
    /\ ~result.err
    /\ result.val = (Matching(pre, call.criteria) # {})

ExistsIffMatchWitness ==
  /\ call.op = "exists"
  /\ Matching(pre, call.criteria) = {}
  /\ Len(pre) > 0
  /\ result.val = FALSE

\* The update call on one document that the state records, and the
\* document before and after it.
IsUpdateObject == call.op = "updateObject"
Doc0 == pre[call.doc]
Doc1 == collection[call.doc]
SinglePath(op) ==
  /\ IsUpdateObject
  /\ call.criteria = <<>>
  /\ Len(call.expr) = 1
  /\ call.expr[1].op = op
  /\ Len(call.expr[1].args) = 1
Sel == call.expr[1].args[1].selector
Val == call.expr[1].args[1].val
IsPlain(selector) == \A i \in 1..Len(selector) : ~isFilterSegment(selector[i])
InSeq(x, seq) == \E i \in 1..Len(seq) : seq[i] = x

\* The other documents and, in the updated document, the other top-level
\* fields are as before the call.
OthersUnchanged(key) ==
  /\ Len(collection) = Len(pre)
  /\ \A j \in 1..Len(pre) : j # call.doc => collection[j] = pre[j]
  /\ \A m \in 1..Len(Doc0.o) :
       Doc0.o[m].k # key => Get(Doc1, Doc0.o[m].k) = Doc0.o[m].v
  /\ \A m \in 1..Len(Doc1.o) : Doc1.o[m].k # key => has(Doc0, Doc1.o[m].k)

\* A plain path can be assigned when every segment before the last leads to
\* a missing or null field, a mapping, or an array the next segment indexes.
RECURSIVE Assignable(_, _)
Assignable(obj, names) ==
  IF Len(names) = 1
  THEN isObject(obj) \/ (isArray(obj) /\ NUMBER_RE(names[1]))
  ELSE LET item == Get(obj, names[1])
       IN isNil(item) \/ (isObjectLike(item) /\ Assignable(item, Tail(names)))

IncQtyCall ==
  /\ SinglePath("$inc")
  /\ Sel = <<"items", "$[x]", "qty">>
  /\ call.arrayFilters = QtyFilter
QtyMatches(e) == isObject(e) /\ isNumber(Get(e, "qty")) /\ Get(e, "qty").n > 5

\* C7: $inc through items.$[x].qty with the filter x.qty > 5 increments qty
\* on the matching elements of items only; every other element and every
\* other field of the document is untouched.
IncOnlyMatching ==
  IncQtyCall =>
    LET items0 == Get(Doc0, "items")
        items1 == Get(Doc1, "items")
    IN /\ ~result.err
       /\ OthersUnchanged("items")
       /\ IF ~isArray(items0) THEN Doc1 = Doc0
          ELSE /\ isArray(items1)
               /\ Len(items1.a) = Len(items0.a)
               /\ \A j \in 1..Len(items0.a) :
                    items1.a[j] =
                      IF QtyMatches(items0.a[j])
                      THEN Put(items0.a[j], "qty", Num(Get(items0.a[j], "qty").n + Val.n))
                      ELSE items0.a[j]

IncOnlyMatchingWitness ==
  /\ IncQtyCall
  /\ Doc0 = OrdersData[1]
  /\ Get(Doc1, "items") =
       Arr(<<Obj(<<Entry("qty", Num(8))>>), Obj(<<Entry("qty", Num(3))>>),
             Obj(<<Entry("qty", Str("s"))>>)>>)

\* The elements of items that pass the array filter of identifier x.
MatchedItems ==
  LET items0 == Get(Doc0, "items")
  IN IF ~isArray(items0) THEN {}
     ELSE {j \in 1..Len(items0.a) :
             test(Query(call.arrayFilters[1]), Obj(<<Entry("x", items0.a[j])>>))}

\* C8 as stated: an update through items.$[x].qty returns a list that
\* contains items.qty if and only if at least one element matched.
FilterUpdateReportsItemsQty ==
  (IsUpdateObject /\ Len(call.expr) = 1 /\ Len(call.expr[1].args) = 1
     /\ Sel = <<"items", "$[x]", "qty">> /\ ~result.err) =>
    (InSeq(<<"items", "qty">>, result.val) <=> MatchedItems # {})

\* C8 amended: an $inc through items.$[x].qty returns a list that contains
\* items, the path before the placeholder, if and only if at least one
\* element matched; it never contains items.qty.
IncReportsParentPath ==
  (SinglePath("$inc") /\ Sel = <<"items", "$[x]", "qty">>) =>
    /\ ~result.err
    /\ InSeq(<<"items">>, result.val) <=> MatchedItems # {}
    /\ ~InSeq(<<"items", "qty">>, result.val)

IncReportsParentPathWitness ==
  /\ SinglePath("$inc")
  /\ Sel = <<"items", "$[x]", "qty">>
  /\ MatchedItems # {}
  /\ result.val = << <<"items">> >>

\* C9: an update call either applies all of its mutations or raises an
\* error with none of them applied.
UpdateAllOrNothing ==
  (IsUpdateObject /\ result.err) => collection = pre

\* The field an update path addresses holds a value that is not a number.
TargetsNonNumber ==
  IF IsPlain(Sel)
  THEN resolve(Doc0, Sel, FALSE).t \notin {"undefined", "number", "nan"}
  ELSE LET items0 == Get(Doc0, "items")
       IN /\ isArray(items0)
          /\ \E j \in 1..Len(items0.a) :
               /\ call.arrayFilters = <<>> \/ j \in MatchedItems
               /\ Get(items0.a[j], "qty").t \notin {"undefined", "number", "nan"}

\* C10: $inc, $bit or $mul on a field that exists and is not a number
\* raises an error, by a plain path or through an array-filter path.
NumericOnlyRaises ==
  ((SinglePath("$inc") \/ SinglePath("$bit") \/ SinglePath("$mul"))
     /\ TargetsNonNumber) => result.err

\* C11: the update dispatcher rejects with an error, leaving the document
\* unchanged, every update document that does not have exactly one top-level
\* key naming a supported update operator; a document with the one operator
\* $set on a top-level field is accepted.
UpdateRejectsInvalidDocument ==
  IsUpdateObject =>
    IF Len(call.expr) # 1 \/ call.expr[1].op \notin UPDATE_OPERATORS
    THEN result.err /\ result.val = <<>> /\ collection = pre
    ELSE call.expr = SetC => ~result.err

UpdateRejectsInvalidDocumentWitness ==
  /\ IsUpdateObject
  /\ call.expr = TwoOperators
  /\ call.criteria = <<>>
  /\ ~has(Doc0, "c")
  /\ result.err
  /\ collection = pre

\* C12: {$or: [A, B]} tests true on a document if and only if A tests true
\* on it or B tests true on it, and {$nor: [A, B]} tests true if and only if
\* {$or: [A, B]} tests false; find with such a query returns the documents
\* accordingly.
OrNorTruthTable ==
  (call.op = "find" /\ Len(call.criteria) = 1
     /\ call.criteria[1].field \in {<<"$or">>, <<"$nor">>}) =>
    LET A == call.criteria[1].expr.a[1]
        B == call.criteria[1].expr.a[2]
        either == {i \in 1..Len(pre) :
                     test(Query(A), pre[i]) \/ test(Query(B), pre[i])}
        expected == IF call.criteria[1].field = <<"$or">> THEN either
                    ELSE (1..Len(pre)) \ either
    IN /\ ~result.err
       /\ Docs(result.val) = Pick(pre, expected, 1)
       /\ \A i \in 1..Len(pre) :
            /\ test(Query(Or(A, B)), pre[i]) <=> i \in either
            /\ test(Query(Nor(A, B)), pre[i]) <=> ~test(Query(Or(A, B)), pre[i])

OrNorTruthTableWitness ==
  /\ call.op = "find"
  /\ call.criteria = Nor(<<Cond(<<"a">>, Num(1))>>, <<Cond(<<"b">>, Num(2))>>)
  /\ pre = ReadmeData
  /\ Docs(result.val) = <<ReadmeData[3]>>

\* The function bound to (type, name) in the operators map ops, or
\* Undefined when none is.
Bound(ops, type, name) ==
  IF type \in DOMAIN ops /\ name \in DOMAIN ops[type] THEN ops[type][name] ELSE Undefined

\* C13: a useOperators call never changes the function bound to an
\* (operator class, name) pair; a call that registers a bound name with a
\* different function is rejected with an error; a call that only registers
\* bound names with their own functions changes nothing and raises no error.
RegistryAppendOnly ==
  [][call'.op = "useOperators" =>
       LET type == call'.type
           ops == call'.operators
       IN /\ \A t \in OperatorType, n \in RegistryNames :
               GLOBAL_CONTEXT[t][n] # Undefined =>
                 GLOBAL_CONTEXT'[t][n] = GLOBAL_CONTEXT[t][n]
          /\ (\E i \in 1..Len(ops) :
                 /\ Bound(GLOBAL_CONTEXT, type, ops[i].k) # Undefined
                 /\ Bound(GLOBAL_CONTEXT, type, ops[i].k) # ops[i].v)
               => result'.err
          /\ (\A i \in 1..Len(ops) :
                 Bound(GLOBAL_CONTEXT, type, ops[i].k) = ops[i].v)
               => (~result'.err /\ GLOBAL_CONTEXT' = GLOBAL_CONTEXT)]_vars

\* The element e passes the subquery b: each operator of b holds of e, or,
\* for a subquery on fields, e tests true against b.
Passes(e, b) ==
  IF \A i \in 1..Len(b.o) : isOperator(b.o[i].k)
  THEN \A i \in 1..Len(b.o) : predicate(b.o[i].k, e, b.o[i].v, 1)
  ELSE test(Query(Condition(b)), e)

\* C21: $all with $elemMatch sub-clauses matches if and only if every listed
\* query is matched by at least one (possibly different) element of the
\* target array; it never matches when the target array or the query list is
\* empty.
AllElemMatch ==
  (call.op = "find" /\ call.criteria \in AllCriteria) =>
    LET field == call.criteria[1].field[1]
        queries == Get(call.criteria[1].expr, "$all").a
        matching ==
          {i \in 1..Len(pre) :
             /\ isArray(Get(pre[i], field))
             /\ Len(Get(pre[i], field).a) > 0
             /\ Len(queries) > 0
             /\ \A j \in 1..Len(queries) :
                  \E k \in 1..Len(Get(pre[i], field).a) :
                    Passes(Get(pre[i], field).a[k], Get(queries[j], "$elemMatch"))}
    IN /\ ~result.err
       /\ Docs(result.val) = Pick(pre, matching, 1)

\* Two subqueries, each passed by a different element of the first order's
\* items and not both by any element of the others.
AllElemMatchWitness ==
  /\ call.op = "find"
  /\ call.criteria = All(<<"items">>, <<ElemMatch(Obj(<<Entry("qty", Gt(5))>>)),
                                        ElemMatch(Obj(<<Entry("qty", Lt(5))>>))>>)
  /\ pre = OrdersData
  /\ Docs(result.val) = <<OrdersData[1]>>

\* One stage applied to a fully materialized array.
Staged1(xs, stage) ==
  CASE stage.action = "MAP" -> [i \in 1..Len(xs) |-> ApplyFunc([kind |-> stage.func], xs[i])]
    [] stage.action = "FILTER" -> SelectSeq(xs, LAMBDA x : ApplyFunc([kind |-> stage.func], x))
    [] stage.action = "TAKE" ->
         IF stage.count > 0 /\ stage.count < Len(xs) THEN SubSeq(xs, 1, stage.count) ELSE xs
    [] stage.action = "DROP" -> SubSeq(xs, stage.count + 1, Len(xs))

\* The stages applied one after another.
RECURSIVE Materialized(_, _, _)
Materialized(xs, stages, i) ==
  IF i > Len(stages) THEN xs ELSE Materialized(Staged1(xs, stages[i]), stages, i + 1)

\* C22: for every chain of map, filter, take(n) and drop(m) stages over a
\* finite source, in any order, pulling the fused lazy sequence to exhaustion
\* yields exactly the sequence obtained by applying the stages one after
\* another to fully materialized arrays.
FusedEqualsStaged ==
  (call.op = "value" /\ hist.values = 1 /\ hist.out = <<>>) =>
    result.val = Materialized(collection, hist.stages, 1)

\* A take stage of the sequence has let as many values through as it was
\* staged with.
Satisfied(it) ==
  \E i \in 1..Len(it.iteratees) :
    it.iteratees[i].action = "TAKE" /\ it.iteratees[i].count <= 0

\* C23: once a take(n) stage of a lazy sequence has let n values through,
\* no later next() or value() call takes another element from the source,
\* and every later next() reports done.
TakeStopsPulling ==
  [][(hist.kind = "lazy" /\ Satisfied(lazy)) =>
       /\ lazy'.pos = lazy.pos
       /\ call'.op = "next" => result'.done]_vars

\* C30: value() is idempotent: the first call pulls the lazy sequence to
\* exhaustion, and every later call returns the same cached array with the
\* same contents and leaves the iterator as it is (the source is not pulled
\* and no staged action runs).
ValueIdempotent ==
  [][(hist.kind = "lazy" /\ call'.op = "value") =>
       /\ lazy'.isDone /\ lazy'.done
       /\ result'.val = lazy'.yieldedValues
       /\ hist.values >= 1 => (lazy' = lazy /\ result'.val = hist.cached)]_vars

\* A second value() on a chain that yielded something.
ValueIdempotentWitness ==
  /\ hist.kind = "lazy"
  /\ call.op = "value"
  /\ hist.values = 2
  /\ Len(hist.stages) = 2
  /\ Len(result.val) > 0
  /\ result.val = hist.cached

\* xs is a prefix of ys.
IsPrefix(xs, ys) == Len(xs) <= Len(ys) /\ xs = SubSeq(ys, 1, Len(xs))

\* C25: Cursor.hasNext() never consumes or loses a document: after any
\* interleaving of hasNext() and next() calls, the documents returned by
\* next(), followed by those returned by a final all(), are exactly the
\* matching documents in order, each once; the peek buffer never holds more
\* than one document; after all() the cursor is exhausted.
CursorLosesNothing ==
  hist.kind = "cursor" =>
    LET matching == Pick(Refs(collection), Matching(collection, hist.criteria), 1)
    IN /\ Len(cursor.buffer) <= 1
       /\ IsPrefix(hist.out \o cursor.buffer, matching)
       /\ hist.alled =>
            /\ hist.out \o hist.rest = matching
            /\ cursor.buffer = <<>>
            /\ call.op = "hasNext" => result.val = FALSE
            /\ call.op = "next" => result.val = Undefined

\* all() after a next() and a hasNext() that buffered the second of three
\* matching documents.
CursorLosesNothingWitness ==
  /\ hist.kind = "cursor"
  /\ hist.alled
  /\ Len(hist.out) = 1
  /\ hist.flushed = 1
  /\ Len(hist.rest) = 2
  /\ call.op = "hasNext"

EmptyReportMeansUnchanged ==
  (call.op = "updateObject" /\ ~result.err /\ result.val = <<>>) => collection = pre

\* C28: the hash function only buckets candidates and never decides
\* membership: under any hash function supplied, unique, intersection and
\* $in return what they return under the default hash function.
HashNeverDecides ==
  /\ call.op = "unique" => result.val = unique(pre, DEFAULT_HASH_FUNCTION)
  /\ call.op = "intersection" => result.val = intersection(pre, DEFAULT_HASH_FUNCTION)
  /\ call.op = "$in" => result.val = in1(pre[1], pre[2], DEFAULT_HASH_FUNCTION)

\* C29: deriving a child context with ComputeOptions.init leaves the
\* context it was derived from as it was, and the variables of the child
\* are the variables of that context overlaid with the supplied ones: a
\* supplied variable has the supplied value, and a variable of the parent
\* that is not supplied again keeps the parent's value in the child.
VariablesOf(local) == Get(local, "variables")
VariableNames == {"x", "y"}
ChildMergesVariables ==
  call.op = "init" =>
    /\ copts.options = hist.options
    /\ \A k \in VariableNames :
         /\ has(VariablesOf(hist.local), k) =>
              Get(VariablesOf(copts.derived._local), k)
                = Get(VariablesOf(hist.local), k)
         /\ (has(VariablesOf(hist.options._local), k)
             /\ ~has(VariablesOf(hist.local), k)) =>
              Get(VariablesOf(copts.derived._local), k)
                = Get(VariablesOf(hist.options._local), k)

\* C24: whatever the position of the $where key in the condition document,
\* Query.test calls the predicate of $where only after it has called the
\* predicates of all other top-level keys (which, the loop stopping at the
\* first failure, have then all passed).
IsWhere(c) == c.op = "$where"
WhereAppliedLast ==
  (call.op = "test" /\ ~result.err) =>
    \A n \in 1..Len(hist.called) :
      IsWhere(hist.compiled[hist.called[n]]) =>
        \A j \in 1..Len(hist.compiled) :
          ~IsWhere(hist.compiled[j]) => j < hist.called[n]

====
